---- MODULE Spec2Model ----
(***************************************************************************)
(* A model of estudio-backend: the frame-analysis service (PDIService),    *)
(* its parameter models and the /process route that drives it.             *)
(*                                                                         *)
(* Images are small pixel grids.  A pixel of the decoded frame is one of   *)
(* a few named colours; the values the OpenCV colour conversions give for  *)
(* a colour (its HSV triple and its gray level after smoothing) are fixed  *)
(* tables.  Areas are kept doubled (area2 = 2 * area): cv2.contourArea     *)
(* returns multiples of one half.  Aspect ratios are kept in hundredths.   *)
(***************************************************************************)
EXTENDS Integers, Sequences, FiniteSets, TLC

VARIABLES
    current_video_path, \* VideoManager._current_video_path (NoPath or a path)
    current_video,      \* VideoManager._current_video (NoVideo or metadata)
    disk,               \* the files of UPLOAD_DIR: path -> what the file holds
    save,               \* per client: its POST /video request in progress
    uploaded,           \* history: the names of the uploads that succeeded
    frame,              \* the frame cv2.VideoCapture decodes from that video
    lib,                \* what the OpenCV detectors report for this frame
    debug_dir,          \* PDIService.DEBUG_DIR: "ok", or how writing to it fails
    pc,                 \* position of process_video: idle, loop, done
    request,            \* the ProcessVideoRequest being served
    idx,                \* index of the next pdi_function of the request
    results,            \* the handler's results list
    calls,              \* one record per pipeline call made for the request
    log,                \* events of the request, in program order
    response,           \* the HTTP response, once pc = "done"
    last,               \* history: the calls of the request served before
    active_connections, \* WebSocketManager.active_connections (a list)
    handler,            \* per websocket: its websocket_metadata coroutine
    broadcast           \* the broadcast_metadata call in progress

vars == <<current_video_path, current_video, disk, save, uploaded, frame, lib, debug_dir,
          pc, request, idx, results, calls, log, response, last,
         active_connections, handler, broadcast>>

\* What process_video reads and never writes.
env == <<frame, lib, debug_dir>>
video == <<current_video_path, current_video, disk, save, uploaded>>

\* The state of a request to /process.
pdi == <<pc, request, idx, results, calls, log, response, last>>
sockets == <<active_connections, handler, broadcast>>

None == "None"

(***************************************************************************)
(* Bounds of the model.                                                    *)
(***************************************************************************)
FrameW == 12
FrameH == 3
VideoLenMs == 2000

(***************************************************************************)
(* Small helpers.                                                          *)
(***************************************************************************)
Min2(a, b) == IF a <= b THEN a ELSE b
Max2(a, b) == IF a >= b THEN a ELSE b
Abs(a) == IF a < 0 THEN -a ELSE a
SetMin(S) == CHOOSE m \in S : \A n \in S : m <= n
SetMax(S) == CHOOSE m \in S : \A n \in S : m >= n
Pixels(w, h) == {<<x, y>> : x \in 0 .. (w - 1), y \in 0 .. (h - 1)}

(***************************************************************************)
(* Pixel colours of the decoded frame and what the library's conversions   *)
(* give for them: cv2.cvtColor(.., COLOR_BGR2HSV) after cv2.GaussianBlur   *)
(* (pdi_service.py 83-84) and cv2.cvtColor(.., COLOR_BGR2GRAY) after the   *)
(* blur (194-197).  Hue is OpenCV's 8-bit hue, 0..179.                     *)
(***************************************************************************)
PixelKinds == {"black", "white", "red", "rose", "darkred", "green", "blue", "yellow"}

HSVOf(k) ==
    CASE k = "black"   -> [h |-> 0,   s |-> 0,   v |-> 0]
      [] k = "white"   -> [h |-> 0,   s |-> 0,   v |-> 255]
      [] k = "red"     -> [h |-> 0,   s |-> 255, v |-> 255]
      [] k = "rose"    -> [h |-> 173, s |-> 255, v |-> 255]
      [] k = "darkred" -> [h |-> 0,   s |-> 255, v |-> 90]
      [] k = "green"   -> [h |-> 60,  s |-> 255, v |-> 255]
      [] k = "blue"    -> [h |-> 120, s |-> 255, v |-> 255]
      [] k = "yellow"  -> [h |-> 30,  s |-> 255, v |-> 255]

GrayOf(k) ==
    CASE k = "black"   -> 0
      [] k = "white"   -> 255
      [] k = "red"     -> 76
      [] k = "rose"    -> 83
      [] k = "darkred" -> 27
      [] k = "green"   -> 150
      [] k = "blue"    -> 29
      [] k = "yellow"  -> 226

(***************************************************************************)
(* Region extraction: numpy basic slicing frame[y : y+h, x : x+w].         *)
(* A negative index counts from the end; an index outside the axis is      *)
(* clamped to it; a stop not after the start gives an empty axis.          *)
(***************************************************************************)
SliceIndex(i, n) ==
    IF i < 0 THEN Max2(i + n, 0) ELSE Min2(i, n)

Slice(start, stop, n) ==
    LET s == SliceIndex(start, n)
        e == SliceIndex(stop, n)
    IN [lo |-> s, len |-> IF e > s THEN e - s ELSE 0]

ExtractRegion(img, roi) ==
    LET rows == Slice(roi.position.y, roi.position.y + roi.size.height, img.h)
        cols == Slice(roi.position.x, roi.position.x + roi.size.width, img.w)
    IN [w  |-> cols.len,
        h  |-> rows.len,
        ox |-> cols.lo,
        oy |-> rows.lo,
        px |-> [p \in Pixels(cols.len, rows.len) |->
                   img.px[<<cols.lo + p[1], rows.lo + p[2]>>]]]

IsEmptyImage(img) == img.w = 0 \/ img.h = 0

(***************************************************************************)
(* Smoothing and colour conversion of the region (library calls).          *)
(***************************************************************************)
SmoothedHSV(img) ==
    [w |-> img.w, h |-> img.h,
     px |-> [p \in Pixels(img.w, img.h) |-> HSVOf(img.px[p])]]

(***************************************************************************)
(* Range mask.  A band is a closed box of HSV values; cv2.inRange marks    *)
(* the pixels inside it, cv2.bitwise_or joins two masks.                   *)
(***************************************************************************)
Band(lower, upper) ==
    [hlo |-> lower[1], slo |-> lower[2], vlo |-> lower[3],
     hhi |-> upper[1], shi |-> upper[2], vhi |-> upper[3]]

InBand(c, b) ==
    /\ b.hlo <= c.h /\ c.h <= b.hhi
    /\ b.slo <= c.s /\ c.s <= b.shi
    /\ b.vlo <= c.v /\ c.v <= b.vhi

inRange(hsv, b) == {p \in Pixels(hsv.w, hsv.h) : InBand(hsv.px[p], b)}

RedLowBand  == Band(<<0, 120, 70>>, <<10, 255, 255>>)
RedHighBand == Band(<<170, 120, 70>>, <<180, 255, 255>>)
GreenBand   == Band(<<35, 100, 100>>, <<85, 255, 255>>)
BlueBand    == Band(<<100, 100, 100>>, <<140, 255, 255>>)
FullBand    == Band(<<0, 100, 100>>, <<180, 255, 255>>)

\* Variant: the red and green tests accept a tie.
_color_bands_ties(params) ==
    IF params.lower_color.r >= params.lower_color.g
       /\ params.lower_color.r >= params.lower_color.b
    THEN {RedLowBand, RedHighBand}
    ELSE IF params.lower_color.g >= params.lower_color.r
            /\ params.lower_color.g >= params.lower_color.b
    THEN {GreenBand}
    ELSE IF params.lower_color.b > params.lower_color.r
            /\ params.lower_color.b > params.lower_color.g
    THEN {BlueBand}
    ELSE {FullBand}

\* Variant: the red test reads the upper colour's red channel.
_color_bands_upper(params) ==
    IF params.upper_color.r > params.lower_color.g
       /\ params.upper_color.r > params.lower_color.b
    THEN {RedLowBand, RedHighBand}
    ELSE IF params.lower_color.g > params.lower_color.r
            /\ params.lower_color.g > params.lower_color.b
    THEN {GreenBand}
    ELSE IF params.lower_color.b > params.lower_color.r
            /\ params.lower_color.b > params.lower_color.g
    THEN {BlueBand}
    ELSE {FullBand}

\* The bands _create_color_mask tests the HSV frame against.
_color_bands(params) ==
    IF params.lower_color.r > params.lower_color.g
       /\ params.lower_color.r > params.lower_color.b
    THEN {RedLowBand, RedHighBand}
    ELSE IF params.lower_color.g > params.lower_color.r
            /\ params.lower_color.g > params.lower_color.b
    THEN {GreenBand}
    ELSE IF params.lower_color.b > params.lower_color.r
            /\ params.lower_color.b > params.lower_color.g
    THEN {BlueBand}
    ELSE {FullBand}

_create_color_mask(hsv_frame, params) ==
    [w |-> hsv_frame.w, h |-> hsv_frame.h,
     bands |-> _color_bands(params),
     on |-> {p \in Pixels(hsv_frame.w, hsv_frame.h) :
                \E b \in _color_bands(params) : p \in inRange(hsv_frame, b)}]

(***************************************************************************)
(* Morphological cleanup: cv2.erode and cv2.dilate with a 5x5 kernel of    *)
(* ones anchored at its centre.  Pixels outside the image never make a     *)
(* pixel erode and never make one dilate (the library's default border).   *)
(***************************************************************************)
KernelSize == 5
ErodeIterations == 1
DilateIterations == 2

Window(p, w, h) ==
    LET r == KernelSize \div 2
    IN {<<x, y>> : x \in Max2(p[1] - r, 0) .. Min2(p[1] + r, w - 1),
                   y \in Max2(p[2] - r, 0) .. Min2(p[2] + r, h - 1)}

RECURSIVE erode(_, _)
erode(mask, iterations) ==
    IF iterations = 0 THEN mask
    ELSE erode([mask EXCEPT !.on =
                   {p \in mask.on : Window(p, mask.w, mask.h) \subseteq mask.on}],
               iterations - 1)

RECURSIVE dilate(_, _)
dilate(mask, iterations) ==
    IF iterations = 0 THEN mask
    ELSE dilate([mask EXCEPT !.on =
                    {p \in Pixels(mask.w, mask.h) :
                        Window(p, mask.w, mask.h) \cap mask.on # {}}],
                iterations - 1)

_apply_morphology(mask) ==
    dilate(erode(mask, ErodeIterations), DilateIterations)

(***************************************************************************)
(* cv2.findContours(.., RETR_EXTERNAL, CHAIN_APPROX_SIMPLE): one contour   *)
(* per 8-connected region of the mask, in raster order of the region's     *)
(* first pixel.  A contour is kept as the set of pixels it encloses (the   *)
(* frames of the model have no region with a hole).                        *)
(***************************************************************************)
Adjacent(p, q) == Abs(p[1] - q[1]) <= 1 /\ Abs(p[2] - q[2]) <= 1

RECURSIVE Grow(_, _)
Grow(C, S) ==
    LET N == {q \in S \ C : \E p \in C : Adjacent(p, q)}
    IN IF N = {} THEN C ELSE Grow(C \cup N, S)

FirstPixel(S) ==
    LET y0 == SetMin({p[2] : p \in S})
        x0 == SetMin({p[1] : p \in {q \in S : q[2] = y0}})
    IN <<x0, y0>>

RECURSIVE findContours(_)
findContours(S) ==
    IF S = {} THEN <<>>
    ELSE LET C == Grow({FirstPixel(S)}, S)
         IN <<C>> \o findContours(S \ C)

(***************************************************************************)
(* cv2.contourArea, doubled: the polygon through the centres of the        *)
(* border pixels covers each unit cell whose four corner pixels are in the *)
(* region, and half of each cell with exactly three of them.               *)
(***************************************************************************)
CellCorners(c) ==
    {<<c[1], c[2]>>, <<c[1] + 1, c[2]>>, <<c[1], c[2] + 1>>, <<c[1] + 1, c[2] + 1>>}

contourArea2(C) ==
    LET cells == {<<p[1] - d[1], p[2] - d[2]>> :
                     p \in C, d \in {<<0, 0>>, <<1, 0>>, <<0, 1>>, <<1, 1>>}}
        n(c)  == Cardinality(CellCorners(c) \cap C)
    IN 2 * Cardinality({c \in cells : n(c) = 4})
       + Cardinality({c \in cells : n(c) = 3})

\* cv2.boundingRect of a contour: (x, y, w, h).
boundingRect(C) ==
    LET xs == {p[1] : p \in C}
        ys == {p[2] : p \in C}
    IN <<SetMin(xs), SetMin(ys),
         SetMax(xs) - SetMin(xs) + 1, SetMax(ys) - SetMin(ys) + 1>>

\* min_area <= area <= max_area, on the doubled area.
AreaInRange(area2, min_area, max_area) ==
    2 * min_area <= area2 /\ area2 <= 2 * max_area

\* Variant: the boxes are kept in a list shared with the call before.
_find_bounding_boxes_shared(mask, min_area, max_area) ==
    LET contours == findContours(mask.on)
        src == SelectSeq([i \in 1 .. Len(contours) |-> i],
                         LAMBDA i : AreaInRange(contourArea2(contours[i]),
                                                min_area, max_area))
        before == IF calls = <<>> THEN <<>>
                  ELSE calls[Len(calls)].out.bounding_boxes
    IN [contours |-> contours,
        src |-> src,
        bounding_boxes |->
            before \o [k \in 1 .. Len(src) |-> boundingRect(contours[src[k]])]]

\* Variant: the area test has no upper bound.
_find_bounding_boxes_no_max(mask, min_area, max_area) ==
    LET contours == findContours(mask.on)
        src == SelectSeq([i \in 1 .. Len(contours) |-> i],
                         LAMBDA i : 2 * min_area <= contourArea2(contours[i]))
    IN [contours |-> contours,
        src |-> src,
        bounding_boxes |-> [k \in 1 .. Len(src) |-> boundingRect(contours[src[k]])]]

(***************************************************************************)
(* PDIService._find_bounding_boxes: the contours of the mask, and for each *)
(* one whose area is in range, in order, its bounding rectangle.  src[k]   *)
(* is the index of the contour that box k was made from.                   *)
(***************************************************************************)
\* _find_bounding_boxes with each box inserted at the head of the list.
_find_bounding_boxes_reversed(mask, min_area, max_area) ==
    LET contours == findContours(mask.on)
        kept == SelectSeq([i \in 1 .. Len(contours) |-> i],
                          LAMBDA i : AreaInRange(contourArea2(contours[i]),
                                                 min_area, max_area))
        src == [k \in 1 .. Len(kept) |-> kept[Len(kept) + 1 - k]]
    IN [contours |-> contours,
        src |-> src,
        bounding_boxes |-> [k \in 1 .. Len(src) |-> boundingRect(contours[src[k]])]]

_find_bounding_boxes(mask, min_area, max_area) ==
    LET contours == findContours(mask.on)
        src == SelectSeq([i \in 1 .. Len(contours) |-> i],
                         LAMBDA i : AreaInRange(contourArea2(contours[i]),
                                                min_area, max_area))
    IN [contours |-> contours,
        src |-> src,
        bounding_boxes |-> [k \in 1 .. Len(src) |-> boundingRect(contours[src[k]])]]

(***************************************************************************)
(* PDIService.process_frame_color_segmentation.  The record returned holds *)
(* the outcome ("ok", or the exception raised), the boxes returned, the    *)
(* intermediate images and the trace of stages and debug emissions.        *)
(***************************************************************************)
Stage(name) == [kind |-> "stage", name |-> name]
Debug(name) == [kind |-> "debug", name |-> name]

(***************************************************************************)
(* PDIService._save_debug_image: debug_dir.mkdir(parents, exist_ok) and    *)
(* cv2.imwrite, with nothing around them.  mkdir raises OSError when the   *)
(* directory cannot be made (debug_dir = "mkdir_fails"); cv2.imwrite       *)
(* returns False when the file cannot be written ("imwrite_fails"), which  *)
(* nobody reads.                                                           *)
(***************************************************************************)
DebugDirStates == {"ok", "mkdir_fails", "imwrite_fails"}

_save_debug_image == [raised |-> debug_dir = "mkdir_fails"]

NoImage == [w |-> 0, h |-> 0, ox |-> 0, oy |-> 0, px |-> <<>>]

(***************************************************************************)
(* Drawing.  roi_frame is a slice of the caller's frame and shares its     *)
(* pixels (it has an origin ox, oy in it); ndarray.copy() gives an array   *)
(* of its own.  cv2.drawContours, cv2.rectangle and cv2.circle write into  *)
(* the array they are given: draw is the set of pixels of the caller's     *)
(* frame that drawing the boxes into the image writes.                     *)
(***************************************************************************)
copy(image) == [w |-> image.w, h |-> image.h, px |-> image.px]

SharesFrame(image) == "ox" \in DOMAIN image

draw(image, boxes) ==
    IF SharesFrame(image)
    THEN {<<image.ox + p[1], image.oy + p[2]>> :
            p \in {q \in Pixels(image.w, image.h) :
                     \E k \in DOMAIN boxes :
                        /\ boxes[k][1] <= q[1] /\ q[1] <= boxes[k][1] + boxes[k][3]
                        /\ boxes[k][2] <= q[2] /\ q[2] <= boxes[k][2] + boxes[k][4]}}
    ELSE {}

\* ShapeDetectionResult.__init__ with the frame kept as it is given.
ShapeDetectionResult_view(original_frame) ==
    [debug_frame |-> original_frame, bounding_boxes |-> <<>>]

\* ShapeDetectionResult.__init__: debug_frame = frame.copy().
ShapeDetectionResult(original_frame) ==
    [debug_frame |-> copy(original_frame), bounding_boxes |-> <<>>]

\* The frame after the pixels written have been painted.
Painted_over(img, written) ==
    [img EXCEPT !.px = [p \in DOMAIN img.px |->
                           IF p \in written THEN "green" ELSE img.px[p]]]

NoMask == [w |-> 0, h |-> 0, bands |-> {}, on |-> {}]

process_frame_color_segmentation(img, roi, params) ==
    LET roi_frame == ExtractRegion(img, roi)
        hsv_frame == SmoothedHSV(roi_frame)
        mask0     == _create_color_mask(hsv_frame, params)
        mask      == _apply_morphology(mask0)
        found     == _find_bounding_boxes(mask, params.min_area, params.max_area)
    IN IF _save_debug_image.raised
       THEN \* the first emission precedes the crop
            [status |-> "OSError", bounding_boxes |-> <<>>, src |-> <<>>,
             contours |-> <<>>, region |-> NoImage,
             mask0 |-> NoMask, mask |-> NoMask, written |-> {},
             trace |-> <<Debug("original")>>]
       ELSE IF IsEmptyImage(roi_frame)
       THEN \* cv2.imwrite and cv2.GaussianBlur reject an empty image
            [status |-> "cv2.error", bounding_boxes |-> <<>>, src |-> <<>>,
             contours |-> <<>>, region |-> roi_frame,
             mask0 |-> NoMask, mask |-> NoMask, written |-> {},
             trace |-> <<Debug("original"), Stage("crop")>>]
       ELSE [status |-> "ok", bounding_boxes |-> found.bounding_boxes,
             src |-> found.src, contours |-> found.contours,
             region |-> roi_frame, mask0 |-> mask0, mask |-> mask,
             \* debug_contours and debug_boxes are copies of roi_frame
             written |-> draw(copy(roi_frame), found.bounding_boxes),
             trace |-> <<Debug("original"), Stage("crop"), Debug("roi"),
                         Stage("blur"), Stage("hsv"), Debug("hsv"),
                         Stage("mask"), Debug("mask"),
                         Stage("erode"), Stage("dilate"), Debug("mask_morphology"),
                         Stage("masked_result"), Debug("masked_result"),
                         Stage("contours"),
                         Debug("contours"), Debug("bounding_boxes")>>]

(***************************************************************************)
(* Shape detection, common prefix: gray conversion, blur, threshold at 127 *)
(* (a pixel is foreground when its smoothed gray level is above 127).      *)
(***************************************************************************)
BinaryThreshold == 127

SmoothedGray(img) ==
    [w |-> img.w, h |-> img.h,
     px |-> [p \in Pixels(img.w, img.h) |-> GrayOf(img.px[p])]]

threshold(gray) ==
    [w |-> gray.w, h |-> gray.h,
     on |-> {p \in Pixels(gray.w, gray.h) : gray.px[p] > BinaryThreshold}]

(***************************************************************************)
(* cv2.approxPolyDP(contour, pct% of the perimeter, closed): the library's *)
(* answer for a contour is read from lib.poly; it gives the number of      *)
(* vertices at 3% and at 4% and the polygon's bounding box, which is the   *)
(* contour's box made narrower by lib.poly[..].shrink columns.             *)
(***************************************************************************)
TriangleEpsilonPct == 3
RectangleEpsilonPct == 4

approxPolyDP(contour, pct) ==
    LET a == lib.poly[contour]
        b == boundingRect(contour)
    IN [len |-> IF pct = TriangleEpsilonPct THEN a.n3 ELSE a.n4,
        box |-> <<b[1], b[2], Max2(b[3] - a.shrink, 1), b[4]>>]

(***************************************************************************)
(* PDIService._get_aspect_ratio_limits, in hundredths.  raised: the table  *)
(* lookup limits[params.rectangle_type] fails (KeyError).  An optional     *)
(* custom_ratio is a sequence: empty for None, else of its one value.      *)
(***************************************************************************)
NoRatio == <<>>

_get_aspect_ratio_limits(params) ==
    IF params.rectangle_type = "custom" /\ params.custom_ratio # NoRatio
    THEN [raised |-> FALSE,
          min_ratio |-> params.custom_ratio[1].min_ratio,
          max_ratio |-> params.custom_ratio[1].max_ratio]
    ELSE CASE params.rectangle_type = "any" ->
                [raised |-> FALSE, min_ratio |-> 20, max_ratio |-> 500]
           [] params.rectangle_type = "square" ->
                [raised |-> FALSE, min_ratio |-> 80, max_ratio |-> 120]
           [] params.rectangle_type = "horizontal" ->
                [raised |-> FALSE, min_ratio |-> 150, max_ratio |-> 500]
           [] params.rectangle_type = "vertical" ->
                [raised |-> FALSE, min_ratio |-> 20, max_ratio |-> 67]
           [] OTHER ->
                [raised |-> TRUE, min_ratio |-> 0, max_ratio |-> 0]

\* The same test with the ends of the interval left out.
RatioInRange_open(w, h, min_ratio, max_ratio) ==
    min_ratio * h < 100 * w /\ 100 * w < max_ratio * h

\* min_ratio <= w / h <= max_ratio, the limits in hundredths.
RatioInRange(w, h, min_ratio, max_ratio) ==
    min_ratio * h <= 100 * w /\ 100 * w <= max_ratio * h

(***************************************************************************)
(* PDIService._process_rectangle_contour: what one contour does to the     *)
(* list of boxes.  "append": its bounding box is appended; "skip": nothing *)
(* is; "KeyError": the aspect-ratio lookup raised.                         *)
(***************************************************************************)
_process_rectangle_contour(contour, params) ==
    LET area2  == contourArea2(contour)
        approx == approxPolyDP(contour, RectangleEpsilonPct)
        box    == boundingRect(contour)
        limits == _get_aspect_ratio_limits(params)
    IN IF ~AreaInRange(area2, params.min_area, params.max_area) THEN "skip"
       ELSE IF approx.len # 4 THEN "skip"
       ELSE IF ~(box[4] > 0) THEN "skip"
       ELSE IF limits.raised THEN "KeyError"
       ELSE IF RatioInRange(box[3], box[4], limits.min_ratio, limits.max_ratio)
       THEN "append"
       ELSE "skip"

\* The loop of _detect_rectangles over contours[i ..], from the boxes so far.
RECURSIVE RectangleLoop(_, _, _, _)
RectangleLoop(contours, i, params, acc) ==
    IF i > Len(contours) THEN acc
    ELSE LET r == _process_rectangle_contour(contours[i], params)
         IN IF r = "KeyError"
            THEN [acc EXCEPT !.status = "KeyError"]
            ELSE IF r = "append"
            THEN RectangleLoop(contours, i + 1, params,
                     [acc EXCEPT !.bounding_boxes = Append(@, boundingRect(contours[i])),
                                 !.src = Append(@, i)])
            ELSE RectangleLoop(contours, i + 1, params, acc)

_detect_rectangles(binary, params) ==
    LET contours == findContours(binary.on)
        out == RectangleLoop(contours, 1, params,
                   [status |-> "ok", bounding_boxes |-> <<>>, src |-> <<>>])
    IN [status |-> out.status,
        bounding_boxes |-> IF out.status = "ok" THEN out.bounding_boxes ELSE <<>>,
        src |-> IF out.status = "ok" THEN out.src ELSE <<>>,
        contours |-> contours,
        circles |-> <<>>,
        trace |-> IF out.status = "ok"
                  THEN <<Stage("contours"), Debug("all_contours"),
                         Stage("rectangles"), Debug("rectangles_detected")>>
                  ELSE <<Stage("contours"), Debug("all_contours"),
                         Stage("rectangles")>>]

(***************************************************************************)
(* PDIService._detect_triangles and _add_triangle_to_result.               *)
(***************************************************************************)
\* The box of the simplified polygon instead of the contour's.
_add_triangle_to_result_approx(contour, approx) == approx.box

_add_triangle_to_result(contour, approx) == boundingRect(contour)

IsTriangle(contour, params) ==
    /\ AreaInRange(contourArea2(contour), params.min_area, params.max_area)
    /\ approxPolyDP(contour, TriangleEpsilonPct).len = 3

_detect_triangles(binary, params) ==
    LET contours == findContours(binary.on)
        src == SelectSeq([i \in 1 .. Len(contours) |-> i],
                         LAMBDA i : IsTriangle(contours[i], params))
    IN [status |-> "ok",
        bounding_boxes |->
            [k \in 1 .. Len(src) |->
                _add_triangle_to_result(contours[src[k]],
                    approxPolyDP(contours[src[k]], TriangleEpsilonPct))],
        src |-> src,
        contours |-> contours,
        circles |-> <<>>,
        trace |-> <<Stage("contours"), Debug("binary_contours"),
                    Stage("triangles"), Debug("final_detection")>>]

(***************************************************************************)
(* Circles.  np.pi is taken as 355/113, which decides every comparison of  *)
(* pi * r * r with an integer the same way for the radii of the model.     *)
(***************************************************************************)
PiNum == 355
PiDen == 113

\* int(np.sqrt(area / np.pi)) for area >= 0: the largest r with pi*r*r <= area.
RECURSIVE RadiusFrom(_, _)
RadiusFrom(r, area) ==
    IF PiNum * (r + 1) * (r + 1) <= PiDen * area THEN RadiusFrom(r + 1, area) ELSE r

RadiusOfArea(area) == RadiusFrom(0, area)

(***************************************************************************)
(* PDIService._find_circles: cv2.HoughCircles on the blurred region with   *)
(* the radius range of the area range.  lib.circles are the circles the    *)
(* transform votes for, best first (frame coordinates, already rounded).   *)
(* The library returns those whose centre lies in the region and whose     *)
(* radius is in the range it searches, dropping a circle whose centre is   *)
(* nearer than minDist to one it has kept; it returns None when there is   *)
(* none.  A negative area makes int(nan) raise.                            *)
(***************************************************************************)
HoughMinDist == 50

RECURSIVE RemoveOverlaps(_, _, _)
RemoveOverlaps(circles, i, kept) ==
    IF i > Len(circles) THEN kept
    ELSE IF \E k \in DOMAIN kept :
                (kept[k].x - circles[i].x) * (kept[k].x - circles[i].x)
                  + (kept[k].y - circles[i].y) * (kept[k].y - circles[i].y)
                    < HoughMinDist * HoughMinDist
    THEN RemoveOverlaps(circles, i + 1, kept)
    ELSE RemoveOverlaps(circles, i + 1, Append(kept, circles[i]))

_find_circles(region, params) ==
    IF params.min_area < 0 \/ params.max_area < 0
    THEN [raised |-> TRUE, none |-> TRUE, circles |-> <<>>]
    ELSE LET minRadius == RadiusOfArea(params.min_area)
             maxGiven  == RadiusOfArea(params.max_area)
             maxRadius == IF maxGiven <= 0 THEN Max2(region.w, region.h)
                          ELSE IF maxGiven <= minRadius
                          THEN minRadius + 2
                          ELSE maxGiven
             local(c)  == [x |-> c.x - region.ox, y |-> c.y - region.oy, r |-> c.r]
             inside(c) == <<c.x - region.ox, c.y - region.oy>>
                              \in Pixels(region.w, region.h)
             nominated == RemoveOverlaps(
                              SelectSeq(lib.circles,
                                  LAMBDA c : /\ inside(c)
                                             /\ minRadius <= c.r /\ c.r <= maxRadius),
                              1, <<>>)
         IN [raised |-> FALSE,
             none |-> nominated = <<>>,
             circles |-> [i \in 1 .. Len(nominated) |-> local(nominated[i])]]

\* The filled disk cv2.circle(.., -1) draws in an image of the given shape.
DiskMask(circle, w, h) ==
    {p \in Pixels(w, h) :
        (p[1] - circle.x) * (p[1] - circle.x) + (p[2] - circle.y) * (p[2] - circle.y)
            <= circle.r * circle.r}

\* cv2.countNonZero(circle_mask & contour_mask), the contour drawn filled.
OverlapArea(circle, contour, w, h) ==
    Cardinality(DiskMask(circle, w, h) \cap contour)

\* Validation that accepts any overlap at all.
_validate_circle_touch(circle, contours, w, h, params) ==
    \E i \in 1 .. Len(contours) :
        /\ OverlapArea(circle, contours[i], w, h) > 0
        /\ PiDen * params.min_area <= PiNum * circle.r * circle.r
        /\ PiNum * circle.r * circle.r <= PiDen * params.max_area

(***************************************************************************)
(* PDIService._validate_circle, with circle.area = pi * r * r:             *)
(*   overlap_area > 0.7 * circle.area                                      *)
(*   and params.min_area <= circle.area <= params.max_area                 *)
(* for some contour.                                                       *)
(***************************************************************************)
_validate_circle(circle, contours, w, h, params) ==
    \E i \in 1 .. Len(contours) :
        /\ 10 * PiDen * OverlapArea(circle, contours[i], w, h)
               > 7 * PiNum * circle.r * circle.r
        /\ PiDen * params.min_area <= PiNum * circle.r * circle.r
        /\ PiNum * circle.r * circle.r <= PiDen * params.max_area

\* PDIService._add_circle_to_result: the box of an accepted circle.
_add_circle_to_result(circle) ==
    <<circle.x - circle.r, circle.y - circle.r, 2 * circle.r, 2 * circle.r>>

\* PDIService._process_detected_circles: src[k] is the index of the circle
\* box k was made from.
_process_detected_circles(circles, contours, w, h, params) ==
    LET src == SelectSeq([i \in 1 .. Len(circles) |-> i],
                         LAMBDA i : _validate_circle(circles[i], contours, w, h, params))
    IN [src |-> src,
        bounding_boxes |-> [k \in 1 .. Len(src) |-> _add_circle_to_result(circles[src[k]])]]

\* The same without the test for None: indexing None raises TypeError.
_detect_circles_unguarded(region, binary, params) ==
    LET contours == findContours(binary.on)
        found    == _find_circles(region, params)
        done     == _process_detected_circles(found.circles, contours,
                                              binary.w, binary.h, params)
    IN IF found.raised
       THEN [status |-> "ValueError", bounding_boxes |-> <<>>, src |-> <<>>,
             contours |-> contours, circles |-> <<>>,
             trace |-> <<Stage("contours"), Debug("binary_contours"), Stage("hough")>>]
       ELSE IF found.none
       THEN [status |-> "TypeError", bounding_boxes |-> <<>>, src |-> <<>>,
             contours |-> contours, circles |-> <<>>,
             trace |-> <<Stage("contours"), Debug("binary_contours"), Stage("hough")>>]
       ELSE [status |-> "ok", bounding_boxes |-> done.bounding_boxes, src |-> done.src,
             contours |-> contours, circles |-> found.circles,
             trace |-> <<Stage("contours"), Debug("binary_contours"), Stage("hough"),
                         Stage("circles"), Debug("final_detection")>>]

_detect_circles(region, binary, params) ==
    LET contours == findContours(binary.on)
        found    == _find_circles(region, params)
        done     == _process_detected_circles(found.circles, contours,
                                              binary.w, binary.h, params)
    IN IF found.raised
       THEN [status |-> "ValueError", bounding_boxes |-> <<>>, src |-> <<>>,
             contours |-> contours, circles |-> <<>>,
             trace |-> <<Stage("contours"), Debug("binary_contours"), Stage("hough")>>]
       ELSE IF found.none
       THEN [status |-> "ok", bounding_boxes |-> <<>>, src |-> <<>>,
             contours |-> contours, circles |-> <<>>,
             trace |-> <<Stage("contours"), Debug("binary_contours"), Stage("hough")>>]
       ELSE [status |-> "ok", bounding_boxes |-> done.bounding_boxes, src |-> done.src,
             contours |-> contours, circles |-> found.circles,
             trace |-> <<Stage("contours"), Debug("binary_contours"), Stage("hough"),
                         Stage("circles"), Debug("final_detection")>>]

(***************************************************************************)
(* PDIService.process_frame_shape_detection.                               *)
(***************************************************************************)
process_frame_shape_detection(img, roi, params) ==
    LET roi_frame == ExtractRegion(img, roi)
        blurred   == SmoothedGray(roi_frame)
        binary    == threshold(blurred)
        prefix    == <<Stage("crop"), Debug("roi"), Stage("gray"), Debug("gray"),
                       Stage("blur"), Debug("blurred"),
                       Stage("threshold"), Debug("binary")>>
        \* circles and triangles are drawn on ShapeDetectionResult.debug_frame,
        \* rectangles on original_frame.copy()
        debug_frame == IF params.shape \in {"circle", "triangle"}
                       THEN ShapeDetectionResult(roi_frame).debug_frame
                       ELSE copy(roi_frame)
        branch    == IF params.shape = "circle"
                     THEN _detect_circles(roi_frame, binary, params)
                     ELSE IF params.shape = "triangle"
                     THEN _detect_triangles(binary, params)
                     ELSE _detect_rectangles(binary, params)
    IN IF _save_debug_image.raised
       THEN [status |-> "OSError", bounding_boxes |-> <<>>, src |-> <<>>,
             contours |-> <<>>, circles |-> <<>>, region |-> roi_frame,
             written |-> {},
             trace |-> <<Stage("crop"), Debug("roi")>>]
       ELSE IF IsEmptyImage(roi_frame)
       THEN [status |-> "cv2.error", bounding_boxes |-> <<>>, src |-> <<>>,
             contours |-> <<>>, circles |-> <<>>, region |-> roi_frame,
             written |-> {},
             trace |-> <<Stage("crop"), Debug("roi")>>]
       ELSE [status |-> branch.status, bounding_boxes |-> branch.bounding_boxes,
             src |-> branch.src, contours |-> branch.contours,
             circles |-> branch.circles, region |-> roi_frame,
             written |-> draw(debug_frame, branch.bounding_boxes),
             trace |-> prefix \o branch.trace]

(***************************************************************************)
(* The parameter models (pydantic).  A parameters dict is a record of the  *)
(* keys it holds.  Construction gives ok = FALSE when pydantic raises      *)
(* ValidationError: a required field is absent, an enum value is unknown,  *)
(* or a ratio is outside [0.1, 10.0] (10..1000 hundredths).                *)
(***************************************************************************)
DefaultMinArea == 5000
DefaultMaxArea == 100000
MinRatioLimit == 10
MaxRatioLimit == 1000

ShapeKinds == {"circle", "rectangle", "triangle"}
RectangleTypes == {"any", "square", "horizontal", "vertical", "custom"}

Has(d, key) == key \in DOMAIN d

PDIColorSegmentationParameters(d) ==
    IF \A key \in {"lower_color", "upper_color", "min_area", "max_area"} : Has(d, key)
    THEN [ok |-> TRUE,
          params |-> [lower_color |-> d.lower_color, upper_color |-> d.upper_color,
                      min_area |-> d.min_area, max_area |-> d.max_area]]
    ELSE [ok |-> FALSE, params |-> <<>>]

AspectRatio(r) ==
    /\ MinRatioLimit <= r.min_ratio /\ r.min_ratio <= MaxRatioLimit
    /\ MinRatioLimit <= r.max_ratio /\ r.max_ratio <= MaxRatioLimit

PDIShapeDetectionParameters(d) ==
    IF /\ Has(d, "shape") /\ d.shape \in ShapeKinds
       /\ Has(d, "rectangle_type") => d.rectangle_type \in RectangleTypes
       /\ Has(d, "custom_ratio") => AspectRatio(d.custom_ratio)
    THEN [ok |-> TRUE,
          params |-> [shape |-> d.shape,
                      rectangle_type |-> IF Has(d, "rectangle_type")
                                         THEN d.rectangle_type ELSE "any",
                      min_area |-> IF Has(d, "min_area") THEN d.min_area
                                   ELSE DefaultMinArea,
                      max_area |-> IF Has(d, "max_area") THEN d.max_area
                                   ELSE DefaultMaxArea,
                      custom_ratio |-> IF Has(d, "custom_ratio")
                                       THEN <<d.custom_ratio>> ELSE NoRatio]]
    ELSE [ok |-> FALSE, params |-> <<>>]

(***************************************************************************)
(* VideoManager and POST /video.  A file name is the sequence of its parts *)
(* between dots ("test.mp4" is <<"test", "mp4">>), so split(".")[-1] is    *)
(* its last part.  A path is <<directory, stem, extension>>.  What a file  *)
(* holds: whose upload its bytes are, whether cv2.VideoCapture opens it,   *)
(* and the properties the capture reports.                                 *)
(***************************************************************************)
UPLOAD_DIR == "uploads/videos"
MAX_WIDTH == 640
MAX_HEIGHT == 360
ALLOWED_EXTENSIONS == {"mp4", "avi", "mov"}

NoPath == <<>>
Path(stem, extension) == <<UPLOAD_DIR, stem, extension>>

Extension(filename) == filename[Len(filename)]

\* str.lower() on the extensions of the model.
Lower(str) ==
    CASE str = "MP4" -> "mp4"
      [] str = "AVI" -> "avi"
      [] str = "MOV" -> "mov"
      [] str = "MKV" -> "mkv"
      [] str = "TXT" -> "txt"
      [] OTHER -> str

NoVideo == [id |-> "none", filename |-> <<>>, width |-> 0, height |-> 0, fps |-> 0]

EmptyContent ==
    [bytes |-> <<>>, resized |-> FALSE, opens |-> FALSE,
     width |-> 0, height |-> 0, fps |-> 0, frame_count |-> 0]

Remove(files, path) == [q \in DOMAIN files \ {path} |-> files[q]]
Put(files, path, content) ==
    [q \in DOMAIN files \cup {path} |-> IF q = path THEN content ELSE files[q]]

\* VideoMetadata built with the name of the stored file.
VideoMetadata_stored_name(file, props, final_dimensions) ==
    [id |-> "current", filename |-> <<"current_video", Extension(file.filename)>>,
     width |-> final_dimensions[1], height |-> final_dimensions[2],
     fps |-> props.fps]

\* VideoMetadata(id="current", filename=file.filename, width, height, fps).
VideoMetadata(file, props, final_dimensions) ==
    [id |-> "current", filename |-> file.filename,
     width |-> final_dimensions[1], height |-> final_dimensions[2],
     fps |-> props.fps]

\* The sizes x for which x * (limit / x), computed in IEEE-754 doubles as the
\* code computes it, falls below limit (571 * (360 / 571) is
\* 359.99999999999994), so that int() truncates it to limit - 1.
RoundsBelow(x, limit) == <<x, limit>> \in {<<571, 360>>, <<597, 360>>}

\* int(x * ratio) for the dimension x that sets the ratio limit / x.
TruncatedLimit(x, limit) == IF RoundsBelow(x, limit) THEN limit - 1 ELSE limit

\* _resize_video with each dimension scaled by its own factor.
_resize_video_independent(props) ==
    <<IF props.width > MAX_WIDTH THEN TruncatedLimit(props.width, MAX_WIDTH)
      ELSE props.width,
      IF props.height > MAX_HEIGHT THEN TruncatedLimit(props.height, MAX_HEIGHT)
      ELSE props.height>>

\* VideoManager._resize_video: the new width and height, both scaled by
\* min(MAX_WIDTH / width, MAX_HEIGHT / height) and truncated.
_resize_video(props) ==
    IF MAX_WIDTH * props.height <= MAX_HEIGHT * props.width
    THEN <<TruncatedLimit(props.width, MAX_WIDTH),
           (props.height * MAX_WIDTH) \div props.width>>
    ELSE <<(props.width * MAX_HEIGHT) \div props.height,
           TruncatedLimit(props.height, MAX_HEIGHT)>>

\* VideoManager.cleanup_current_video without the os.remove.
cleanup_current_video_keep ==
    IF current_video_path # NoPath /\ current_video_path \in DOMAIN disk
    THEN [path |-> NoPath, video |-> NoVideo, disk |-> disk]
    ELSE [path |-> current_video_path, video |-> current_video, disk |-> disk]

\* VideoManager.cleanup_current_video: what it leaves in _current_video_path,
\* _current_video and the upload directory.
cleanup_current_video ==
    IF current_video_path # NoPath /\ current_video_path \in DOMAIN disk
    THEN [path |-> NoPath, video |-> NoVideo,
          disk |-> Remove(disk, current_video_path)]
    ELSE [path |-> current_video_path, video |-> current_video, disk |-> disk]

Clients == {"a", "b"}

NoFile == [filename |-> <<>>, content |-> EmptyContent, encodes |-> FALSE]
NoReply == [status |-> 0, detail |-> None, body |-> NoVideo]
\* before is history: the VideoManager state when the request began.
\* writes_to is the name under which the file the request holds open for
\* writing is found, NoPath once that file has been unlinked.
Idle == [pc |-> "idle", op |-> None, file |-> NoFile, temp_path |-> NoPath,
         writes_to |-> NoPath, response |-> NoReply,
         before |-> [path |-> NoPath, video |-> NoVideo,
                     disk |-> [q \in {} |-> EmptyContent]]]

Before == [path |-> current_video_path, video |-> current_video, disk |-> disk]

\* The open files of the requests follow a rename (from, to) or an unlink
\* (from, NoPath) of the file they were opened on.
Retarget(requests, from, to) ==
    [c \in DOMAIN requests |->
        IF requests[c].pc = "write" /\ requests[c].writes_to = from
        THEN [requests[c] EXCEPT !.writes_to = to]
        ELSE requests[c]]

\* The requests after cleanup_current_video has run.
AfterCleanup(requests) ==
    IF cleanup_current_video.path = current_video_path THEN requests
    ELSE Retarget(requests, current_video_path, NoPath)

Reply(status, detail, body) == [status |-> status, detail |-> detail, body |-> body]

(***************************************************************************)
(* upload_video up to the first suspension of save_video: the extension    *)
(* test of the route, then cleanup_current_video and UPLOAD_DIR.mkdir.     *)
(* (An empty file name has an extension the route refuses, so the test     *)
(* "not file.filename" of save_video is never true here.)                  *)
(***************************************************************************)
UploadVideo(c, file) ==
    /\ save[c].pc = "idle"
    /\ IF Lower(Extension(file.filename)) \notin ALLOWED_EXTENSIONS
       THEN /\ save' = [save EXCEPT ![c] =
                           [Idle EXCEPT !.pc = "done", !.op = "upload_video",
                                        !.file = file, !.before = Before,
                                        !.response = Reply(400, "Unsupported file format",
                                                           NoVideo)]]
            /\ UNCHANGED <<current_video_path, current_video, disk>>
       ELSE /\ current_video_path' = cleanup_current_video.path
            /\ current_video' = cleanup_current_video.video
            /\ disk' = cleanup_current_video.disk
            /\ save' = [AfterCleanup(save) EXCEPT ![c] =
                           [Idle EXCEPT !.pc = "open", !.op = "upload_video",
                                        !.file = file, !.before = Before,
                                        !.temp_path = Path("temp_video",
                                                           Extension(file.filename))]]
    /\ UNCHANGED <<uploaded, env, pdi, sockets>>

\* aiofiles.open(temp_path, "wb") has completed: the file is there, empty.
SaveOpen(c) ==
    /\ save[c].pc = "open"
    /\ disk' = Put(disk, save[c].temp_path, EmptyContent)
    /\ save' = [save EXCEPT ![c].pc = "write", ![c].writes_to = save[c].temp_path]
    /\ UNCHANGED <<current_video_path, current_video, uploaded, env, pdi, sockets>>

\* file.read(), out_file.write(content) and the close have completed.
SaveWrite(c) ==
    /\ save[c].pc = "write"
    /\ disk' = IF save[c].writes_to \in DOMAIN disk
               THEN Put(disk, save[c].writes_to, save[c].file.content)
               ELSE disk
    /\ save' = [save EXCEPT ![c].pc = "written", ![c].writes_to = NoPath]
    /\ UNCHANGED <<current_video_path, current_video, uploaded, env, pdi, sockets>>

\* What _resize_video leaves at the output path: a video of the new
\* dimensions when cv2.VideoWriter can encode it, nothing otherwise (the writer
\* reports no error and out.write does nothing).
Resized(props, final_dimensions) ==
    [props EXCEPT !.resized = TRUE,
                  !.width = final_dimensions[1], !.height = final_dimensions[2]]

(***************************************************************************)
(* The rest of save_video, which runs without suspension: the capture      *)
(* tests, the resize or rename, the assignments of _current_video_path and *)
(* _current_video, the except and finally clauses; then the except clause  *)
(* of upload_video, which answers 500 for every exception of save_video.   *)
(***************************************************************************)
SaveFinish(c) ==
    LET file == save[c].file
        temp_path == save[c].temp_path
        exists == temp_path \in DOMAIN disk
        props == IF exists THEN disk[temp_path] ELSE EmptyContent
        final_path == Path("current_video", Extension(file.filename))
        resize == props.width > MAX_WIDTH \/ props.height > MAX_HEIGHT
        final_dimensions == IF resize THEN _resize_video(props)
                            ELSE <<props.width, props.height>>
        stored == IF resize
                  THEN IF /\ file.encodes
                          /\ final_dimensions[1] > 0 /\ final_dimensions[2] > 0
                       THEN Put(disk, final_path, Resized(props, final_dimensions))
                       ELSE disk
                  ELSE Put(Remove(disk, temp_path), final_path, props)
        metadata == VideoMetadata(file, props, final_dimensions)
        fails(detail) ==
            /\ disk' = Remove(disk, temp_path)
            /\ save' = [Retarget(save, temp_path, NoPath) EXCEPT
                           ![c].pc = "done",
                           ![c].response = Reply(500, detail, NoVideo)]
    IN  /\ save[c].pc = "written"
        /\ IF ~(exists /\ props.opens)
           THEN /\ fails("Invalid video file or unsupported format")
                /\ UNCHANGED <<current_video_path, current_video, uploaded>>
           ELSE IF props.fps <= 0 \/ props.frame_count <= 0
           THEN /\ fails("Invalid video file: could not determine video properties")
                /\ UNCHANGED <<current_video_path, current_video, uploaded>>
           ELSE IF final_path \notin DOMAIN stored
           THEN \* final_path.stat() raises after the path was assigned
                /\ fails("Error processing video")
                /\ current_video_path' = final_path
                /\ UNCHANGED <<current_video, uploaded>>
           ELSE /\ current_video_path' = final_path
                /\ current_video' = metadata
                /\ disk' = Remove(stored, temp_path)
                /\ save' = [Retarget(IF resize THEN save
                                      ELSE Retarget(save, final_path, NoPath),
                                      temp_path, IF resize THEN NoPath ELSE final_path)
                               EXCEPT ![c].pc = "done",
                                      ![c].response = Reply(200, None, metadata)]
                /\ uploaded' = uploaded \cup {file.filename}
        /\ UNCHANGED <<env, pdi, sockets>>

\* The response has been sent.
UploadDone(c) ==
    /\ save[c].pc = "done"
    /\ save' = [save EXCEPT ![c] = Idle]
    /\ UNCHANGED <<current_video_path, current_video, disk, uploaded, env, pdi, sockets>>

\* A direct call of VideoManager.cleanup_current_video.
CleanupCurrentVideo(c) ==
    /\ save[c].pc = "idle"
    /\ current_video_path' = cleanup_current_video.path
    /\ current_video' = cleanup_current_video.video
    /\ disk' = cleanup_current_video.disk
    /\ save' = [AfterCleanup(save) EXCEPT
                   ![c] = [Idle EXCEPT !.pc = "done", !.before = Before,
                                       !.op = "cleanup_current_video"]]
    /\ UNCHANGED <<uploaded, env, pdi, sockets>>

\* Someone else removes a file of the upload directory between two requests.
RemoveFile(path) ==
    /\ \A c \in Clients : save[c].pc = "idle"
    /\ path \in DOMAIN disk
    /\ disk' = Remove(disk, path)
    /\ UNCHANGED <<current_video_path, current_video, save, uploaded, env, pdi, sockets>>

NoFiles == [q \in {} |-> EmptyContent]

Content(filename, width, height, fps, frame_count) ==
    [bytes |-> filename, resized |-> FALSE, opens |-> TRUE,
     width |-> width, height |-> height, fps |-> fps, frame_count |-> frame_count]

\* The state after one successful upload of "test.mp4" that needed no resize.
VideoLoaded ==
    LET content == Content(<<"test", "mp4">>, FrameW, FrameH, 30, 60)
        file == [filename |-> <<"test", "mp4">>, content |-> content, encodes |-> TRUE]
    IN  /\ current_video_path = Path("current_video", "mp4")
        /\ current_video = VideoMetadata(file, content, <<FrameW, FrameH>>)
        /\ disk = Put(NoFiles, Path("current_video", "mp4"), content)
        /\ save = [c \in Clients |-> Idle]
        /\ uploaded = {<<"test", "mp4">>}

\* The state an upload leaves when _resize_video wrote no output: the path is
\* assigned (line 118) and no file is there.
VideoFileMissing ==
    /\ current_video_path = Path("current_video", "mov")
    /\ current_video = NoVideo
    /\ disk = NoFiles
    /\ save = [c \in Clients |-> Idle]
    /\ uploaded = {}

\* The state after construction.
NoVideoLoaded ==
    /\ current_video_path = NoPath
    /\ current_video = NoVideo
    /\ disk = NoFiles
    /\ save = [c \in Clients |-> Idle]
    /\ uploaded = {}

(***************************************************************************)
(* WebSocketManager and /ws/metadata.  A websocket is named by an          *)
(* identifier; active_connections is the Python list, in insertion order.  *)
(***************************************************************************)
Sockets == {"w1", "w2", "w3"}

NoSocket == "None"

\* The JSON object a client sends: which fields of WebSocketMessage it has.
Data(timestamp, roi, pdi_functions) ==
    [timestamp |-> timestamp, roi |-> roi, pdi_functions |-> pdi_functions]

\* WebSocketMessage.parse_obj: timestamp, roi and pdi_functions are required;
\* other keys of the object are ignored.
WebSocketMessage_parse_obj(data) ==
    [ok |-> data.timestamp /\ data.roi /\ data.pdi_functions]

NoAnswer == [type |-> "none", message |-> None]
ErrorAnswer(message) == [type |-> "error", message |-> message]

\* received is history: whether the last object received was answered, how,
\* and while which metadata was current.
NoHandler ==
    [pc |-> "none", received |-> FALSE, data |-> Data(FALSE, FALSE, FALSE),
     answer |-> NoAnswer, loaded |-> FALSE]

\* WebSocketManager.disconnect that removes nothing.
disconnect_nothing(connections, websocket) == connections

\* WebSocketManager.disconnect: list.remove of the first occurrence, if any.
disconnect(connections, websocket) ==
    IF \E k \in DOMAIN connections : connections[k] = websocket
    THEN LET first == CHOOSE k \in DOMAIN connections :
                          /\ connections[k] = websocket
                          /\ \A j \in 1 .. (k - 1) : connections[j] # websocket
         IN [k \in 1 .. (Len(connections) - 1) |->
                IF k < first THEN connections[k] ELSE connections[k + 1]]
    ELSE connections

\* for connection in self.active_connections: the list iterator holds an
\* index into the list and reads the list as it is when the next item is
\* asked for.
IteratorNext(index, connections) ==
    IF index < Len(connections)
    THEN [more |-> TRUE, connection |-> connections[index + 1]]
    ELSE [more |-> FALSE, connection |-> NoSocket]

\* start and attempts are history: the list when the call began and the
\* sends awaited so far, with their outcomes.
NoBroadcast ==
    [pc |-> "idle", index |-> 0, connection |-> NoSocket, disconnected |-> <<>>,
     start |-> <<>>, attempts |-> <<>>]

RECURSIVE DisconnectAll(_, _)
DisconnectAll(connections, disconnected) ==
    IF disconnected = <<>> THEN connections
    ELSE DisconnectAll(disconnect(connections, Head(disconnected)), Tail(disconnected))

\* websocket_metadata up to its first receive: manager.connect.
Connect(w) ==
    /\ handler[w].pc = "none"
    /\ active_connections' = Append(active_connections, w)
    /\ handler' = [handler EXCEPT ![w].pc = "receive"]
    /\ UNCHANGED <<broadcast, env, video, pdi>>

\* One turn of the handler's loop for a received object.  A ValidationError
\* of parse_obj and the AttributeError of message.frame_info (WebSocketMessage
\* has no such field) both reach "except Exception": the handler disconnects
\* and ends without sending anything.
Receive(w, data) ==
    /\ handler[w].pc = "receive"
    /\ LET message == WebSocketMessage_parse_obj(data)
           heard == [handler[w] EXCEPT !.received = TRUE, !.data = data,
                                       !.loaded = (current_video # NoVideo)]
       IN IF message.ok /\ current_video = NoVideo
          THEN /\ handler' = [handler EXCEPT
                                 ![w] = [heard EXCEPT
                                            !.answer = ErrorAnswer("No video loaded")]]
               /\ UNCHANGED active_connections
          ELSE /\ handler' = [handler EXCEPT
                                 ![w] = [heard EXCEPT !.pc = "closed",
                                                      !.answer = NoAnswer]]
               /\ active_connections' = disconnect(active_connections, w)
    /\ UNCHANGED <<broadcast, env, video, pdi>>

\* The client goes away: receive_json raises WebSocketDisconnect.
ClientDisconnects(w) ==
    /\ handler[w].pc = "receive"
    /\ handler' = [handler EXCEPT ![w] = [NoHandler EXCEPT !.pc = "closed"]]
    /\ active_connections' = disconnect(active_connections, w)
    /\ UNCHANGED <<broadcast, env, video, pdi>>

\* The loop of broadcast_metadata asks its iterator for the next connection:
\* it awaits the send to it, or runs the clean-up loop and returns.
Advance(call, connections) ==
    LET next == IteratorNext(call.index, connections)
    IN IF next.more
       THEN [b |-> [call EXCEPT !.pc = "send", !.index = call.index + 1,
                                !.connection = next.connection],
             connections |-> connections]
       ELSE [b |-> [call EXCEPT !.pc = "done", !.connection = NoSocket],
             connections |-> DisconnectAll(connections, call.disconnected)]

\* A call of manager.broadcast_metadata, up to its first awaited send.
BroadcastStart ==
    /\ broadcast.pc = "idle"
    /\ LET call == [NoBroadcast EXCEPT !.start = active_connections]
       IN /\ broadcast' = Advance(call, active_connections).b
          /\ active_connections' = Advance(call, active_connections).connections
    /\ UNCHANGED <<handler, env, video, pdi>>

\* asyncio.wait_for(connection.send_json(message), timeout=5.0) completes,
\* raises or times out; the loop goes on to the next connection.
BroadcastSend(outcome) ==
    /\ broadcast.pc = "send"
    /\ LET call == [broadcast EXCEPT
                       !.attempts = Append(@, [to |-> broadcast.connection,
                                               outcome |-> outcome]),
                       !.disconnected = IF outcome = "ok" THEN @
                                        ELSE Append(@, broadcast.connection)]
       IN /\ broadcast' = Advance(call, active_connections).b
          /\ active_connections' = Advance(call, active_connections).connections
    /\ UNCHANGED <<handler, env, video, pdi>>

\* The caller of broadcast_metadata has its return.
BroadcastReturn ==
    /\ broadcast.pc = "done"
    /\ broadcast' = NoBroadcast
    /\ UNCHANGED <<active_connections, handler, env, video, pdi>>

SendOutcomes == {"ok", "raises", "timeout"}

(***************************************************************************)
(* POST /process (process_video).                                          *)
(***************************************************************************)
NoRequest == [pdi_functions |-> <<>>,
              roi |-> [position |-> [x |-> 0, y |-> 0],
                       size |-> [width |-> 0, height |-> 0]],
              timestamp |-> 0]
\* The detail of a response: the list [{"msg": text}] of an HTTPException of
\* process_video, the name of an exception that nothing handles, or none.
DetailList(text) == [type |-> "list", text |-> text]
Raised(name) == [type |-> "exception", text |-> name]
NoDetail == [type |-> "none", text |-> None]

NoResponse == [status |-> 0, detail |-> NoDetail, results |-> <<>>]

\* cap.set(CAP_PROP_POS_MSEC, timestamp); cap.read(): no frame past the end.
ReadFrame_any(timestamp) == [ret |-> TRUE, frame |-> frame]

ReadFrame(timestamp) ==
    [ret |-> /\ current_video_path \in DOMAIN disk
             /\ disk[current_video_path].opens
             /\ timestamp >= 0 /\ timestamp < VideoLenMs,
     frame |-> frame]

LogOf(i, trace) == [k \in 1 .. Len(trace) |-> [fn |-> i, ev |-> trace[k]]]

ProcessStart(req) ==
    /\ pc = "idle"
    /\ request' = req
    /\ idx' = 1
    /\ results' = <<>>
    /\ calls' = <<>>
    /\ log' = <<>>
    /\ IF current_video_path = NoPath
       THEN /\ pc' = "done"
            /\ response' = [status |-> 422,
                            detail |-> DetailList("No video loaded. Please upload a video first."),
                            results |-> <<>>]
       ELSE IF ~ReadFrame(req.timestamp).ret
       THEN /\ pc' = "done"
            /\ response' = [status |-> 422,
                            detail |-> DetailList("Could not read frame at specified timestamp"),
                            results |-> <<>>]
       ELSE /\ pc' = "loop"
            /\ response' = NoResponse
    /\ UNCHANGED <<env, video, last, sockets>>

\* One iteration of the loop over request.pdi_functions.
ProcessFunction ==
    /\ pc = "loop"
    /\ idx <= Len(request.pdi_functions)
    /\ LET f == request.pdi_functions[idx]
           \* what the handler does with the outcome of the pipeline call
           append(params, out) ==
               /\ frame' = Painted_over(frame, out.written)
               /\ log' = Append(log, [fn |-> idx, ev |-> [kind |-> "validate",
                                                          name |-> "ok"]])
                           \o LogOf(idx, out.trace)
               /\ calls' = Append(calls, [fn |-> idx, function |-> f.function,
                                          params |-> params, out |-> out])
               /\ IF out.status = "ok"
                  THEN /\ results' = Append(results,
                                         [function |-> f.function,
                                          bounding_boxes |-> out.bounding_boxes])
                       /\ idx' = idx + 1
                       /\ UNCHANGED <<pc, response>>
                  ELSE /\ pc' = "done"
                       /\ response' = [status |-> 500, detail |-> Raised(out.status),
                                       results |-> <<>>]
                       /\ UNCHANGED <<idx, results>>
           \* the parameter model is built, then the pipeline is called
           call(v) ==
               IF ~v.ok
               THEN /\ pc' = "done"
                    /\ response' = [status |-> 500,
                                    detail |-> Raised("ValidationError"),
                                    results |-> <<>>]
                    /\ log' = Append(log, [fn |-> idx,
                                           ev |-> [kind |-> "validate",
                                                   name |-> "ValidationError"]])
                    /\ UNCHANGED <<idx, results, calls, frame>>
               ELSE IF f.function = "color_segmentation"
               THEN append(v.params,
                           process_frame_color_segmentation(frame, request.roi, v.params))
               ELSE append(v.params,
                           process_frame_shape_detection(frame, request.roi, v.params))
       IN IF f.function = "color_segmentation"
          THEN call(PDIColorSegmentationParameters(f.parameters))
          ELSE IF f.function = "shape_detection"
          THEN call(PDIShapeDetectionParameters(f.parameters))
          ELSE /\ idx' = idx + 1
               /\ UNCHANGED <<pc, results, calls, log, response, frame>>
    /\ UNCHANGED <<lib, debug_dir, video, request, last, sockets>>

ProcessReturn ==
    /\ pc = "loop"
    /\ idx > Len(request.pdi_functions)
    /\ pc' = "done"
    /\ response' = [status |-> 200, detail |-> NoDetail, results |-> results]
    /\ UNCHANGED <<env, video, request, idx, results, calls, log, last, sockets>>

\* History of the pipeline calls of one request (kept when last.on).
NoHistory == [on |-> FALSE, roi |-> NoRequest.roi, timestamp |-> 0, calls |-> <<>>]

\* The response has been sent; the next request starts from the same server state.
ProcessDone ==
    /\ pc = "done"
    /\ pc' = "idle"
    /\ request' = NoRequest
    /\ idx' = 1
    /\ results' = <<>>
    /\ calls' = <<>>
    /\ log' = <<>>
    /\ response' = NoResponse
    /\ last' = IF last.on /\ calls # <<>>
               THEN [on |-> TRUE, roi |-> request.roi,
                     timestamp |-> request.timestamp, calls |-> calls]
               ELSE last
    /\ UNCHANGED <<env, video, sockets>>

(***************************************************************************)
(* The inputs of the model: frames, regions of interest, parameters.       *)
(***************************************************************************)
\* A black frame with a blob of full height at its left edge (3 columns) and
\* one at its right edge (4 columns).
EdgeBlobs(left, right) ==
    [w |-> FrameW, h |-> FrameH,
     px |-> [p \in Pixels(FrameW, FrameH) |->
                IF p[1] <= 2 THEN left
                ELSE IF p[1] >= FrameW - 4 THEN right
                ELSE "black"]]

ColorFrames ==
    {EdgeBlobs("red", "rose"), EdgeBlobs("green", "darkred"),
     EdgeBlobs("blue", "yellow"), EdgeBlobs("black", "black")}

ROI(x, y, width, height) ==
    [position |-> [x |-> x, y |-> y], size |-> [width |-> width, height |-> height]]

FullROI == ROI(0, 0, FrameW, FrameH)

ROIs ==
    {FullROI,
     ROI(0, 0, 6, FrameH),          \* inside the frame
     ROI(6, 0, FrameW, FrameH),     \* reaches past the right edge
     ROI(-6, 0, 3, FrameH),         \* negative position
     ROI(-3, 0, 3, FrameH)}         \* negative position, stop at 0

Channels == {0, 100, 200}
Colors == [r : Channels, g : Channels, b : Channels]
White == [r |-> 255, g |-> 255, b |-> 255]
Black == [r |-> 0, g |-> 0, b |-> 0]

AreaRanges == {<<0, 1000>>, <<9, 10>>, <<0, 9>>}

ColorFunction(lower, upper, range) ==
    [function |-> "color_segmentation",
     parameters |-> [lower_color |-> lower, upper_color |-> upper,
                     min_area |-> range[1], max_area |-> range[2]]]

ColorFunctions ==
    {ColorFunction(l, u, a) : l \in Colors, u \in {White, Black}, a \in AreaRanges}

Request(functions, roi, timestamp) ==
    [pdi_functions |-> functions, roi |-> roi, timestamp |-> timestamp]

PairColors ==
    {[r |-> 200, g |-> 0, b |-> 0], [r |-> 200, g |-> 100, b |-> 0],
     [r |-> 100, g |-> 100, b |-> 100], [r |-> 200, g |-> 200, b |-> 0],
     [r |-> 0, g |-> 200, b |-> 100], [r |-> 0, g |-> 0, b |-> 200]}

\* One colour function, or two with the same area range.
ColorRequests ==
    {Request(<<f>>, roi, 1000) : f \in ColorFunctions, roi \in ROIs}
    \cup {Request(<<ColorFunction(l1, White, a), ColorFunction(l2, Black, a)>>, roi, 1000) :
             l1 \in PairColors, l2 \in PairColors, a \in AreaRanges,
             roi \in {FullROI, ROI(6, 0, FrameW, FrameH)}}

DefaultPoly == [n3 |-> 4, n4 |-> 4, shrink |-> 0]

\* The contours the shape pipeline can meet in this frame.
BinaryContours(img) ==
    UNION {{findContours(threshold(SmoothedGray(ExtractRegion(img, roi))).on)[i] :
              i \in 1 .. Len(findContours(
                          threshold(SmoothedGray(ExtractRegion(img, roi))).on))} :
           roi \in ROIs}

InitServer ==
    /\ active_connections = <<>>
    /\ handler = [w \in Sockets |-> NoHandler]
    /\ broadcast = NoBroadcast
    /\ pc = "idle"
    /\ request = NoRequest
    /\ idx = 1
    /\ results = <<>>
    /\ calls = <<>>
    /\ log = <<>>
    /\ response = NoResponse

InitColor ==
    /\ VideoLoaded
    /\ frame \in ColorFrames
    /\ debug_dir = "ok"
    /\ last = NoHistory
    /\ lib = [poly |-> [c \in BinaryContours(frame) |-> DefaultPoly], circles |-> <<>>]
    /\ InitServer

NextColor ==
    \/ \E req \in ColorRequests : ProcessStart(req)
    \/ ProcessFunction
    \/ ProcessReturn
    \/ ProcessDone

SpecColor == InitColor /\ [][NextColor]_vars

(***************************************************************************)
(* Shape detection: frames of bright boxes on black, one shape function    *)
(* per request.  The library's polygon approximation differs from the      *)
(* default for at most one contour; the Hough transform votes for one of   *)
(* the lists of HoughCandidates.                                           *)
(***************************************************************************)
\* A black frame with boxes <<x, y, w, h, kind>> painted on it.
Painted(boxes) ==
    [w |-> FrameW, h |-> FrameH,
     px |-> [p \in Pixels(FrameW, FrameH) |->
                IF \E b \in boxes : /\ b[1] <= p[1] /\ p[1] < b[1] + b[3]
                                    /\ b[2] <= p[2] /\ p[2] < b[2] + b[4]
                THEN (CHOOSE b \in boxes : /\ b[1] <= p[1] /\ p[1] < b[1] + b[3]
                                           /\ b[2] <= p[2] /\ p[2] < b[2] + b[4])[5]
                ELSE "black"]]

ShapeFrames ==
    {Painted({<<0, 0, 6, 2, "white">>, <<7, 0, 2, 3, "yellow">>, <<10, 0, 2, 2, "white">>}),
     Painted({<<0, 0, 6, 2, "white">>, <<10, 0, 2, 2, "red">>}),
     Painted({})}

ShapeROIs == {FullROI, ROI(6, 0, FrameW, FrameH)}

PolyMenu ==
    {[n3 |-> 3, n4 |-> 3, shrink |-> 1], DefaultPoly,
     [n3 |-> 5, n4 |-> 4, shrink |-> 0], [n3 |-> 4, n4 |-> 3, shrink |-> 0]}

Circle(x, y, r) == [x |-> x, y |-> y, r |-> r]

HoughCandidates ==
    {<<>>, <<Circle(8, 1, 1), Circle(3, 1, 1)>>, <<Circle(8, 1, 2), Circle(8, 1, 1)>>,
     <<Circle(3, 1, 1)>>, <<Circle(6, 1, 1)>>}

ShapeAreaRanges == {<<0, 1000>>, <<2, 5>>, <<3, 4>>, <<4, 1000>>}

ShapeFunction(parameters) ==
    [function |-> "shape_detection", parameters |-> parameters]

CustomRatios == {[min_ratio |-> 300, max_ratio |-> 1000]}

ShapeFunctions ==
    {ShapeFunction([shape |-> "rectangle", rectangle_type |-> t,
                    min_area |-> a[1], max_area |-> a[2]]) :
         t \in RectangleTypes, a \in ShapeAreaRanges}
    \cup {ShapeFunction([shape |-> "rectangle", rectangle_type |-> t,
                         min_area |-> a[1], max_area |-> a[2], custom_ratio |-> c]) :
         t \in RectangleTypes, a \in ShapeAreaRanges, c \in CustomRatios}
    \cup {ShapeFunction([shape |-> sh, min_area |-> a[1], max_area |-> a[2]]) :
         sh \in {"triangle", "circle"}, a \in ShapeAreaRanges}

ShapeRequests == {Request(<<f>>, roi, 1000) : f \in ShapeFunctions, roi \in ShapeROIs}

InitShape ==
    /\ VideoLoaded
    /\ frame \in ShapeFrames
    /\ debug_dir = "ok"
    /\ last = NoHistory
    /\ lib \in {[poly |-> [c \in BinaryContours(frame) |->
                              IF c = c0 THEN m ELSE DefaultPoly],
                 circles |-> cs] :
                   c0 \in BinaryContours(frame) \cup {{}}, m \in PolyMenu,
                   cs \in HoughCandidates}
    /\ InitServer

NextShape ==
    \/ \E req \in ShapeRequests : ProcessStart(req)
    \/ ProcessFunction
    \/ ProcessReturn
    \/ ProcessDone

SpecShape == InitShape /\ [][NextShape]_vars

(***************************************************************************)
(* POST /process with a list of up to MaxFunctions functions, well formed   *)
(* or not, with or without a video loaded, at a timestamp inside or past   *)
(* the end of the video.  The functions before the last one of a list are  *)
(* LeadFunctions: well-formed ones, after which the loop goes on.          *)
(***************************************************************************)
MaxFunctions == 2

RouteFunctions ==
    {ColorFunction([r |-> 200, g |-> 0, b |-> 0], White, <<0, 1000>>),
     ColorFunction([r |-> 200, g |-> 0, b |-> 0], White, <<10, 0>>),
     [function |-> "color_segmentation",
      parameters |-> [lower_color |-> Black, min_area |-> 0, max_area |-> 1000]],
     ShapeFunction([shape |-> "rectangle", rectangle_type |-> "custom",
                    min_area |-> 0, max_area |-> 1000]),
     ShapeFunction([shape |-> "rectangle", rectangle_type |-> "custom",
                    min_area |-> 0, max_area |-> 1000,
                    custom_ratio |-> [min_ratio |-> 5, max_ratio |-> 100]]),
     ShapeFunction([shape |-> "triangle", min_area |-> 0, max_area |-> 1000]),
     ShapeFunction([shape |-> "triangle"]),
     ShapeFunction([shape |-> "circle", min_area |-> 0, max_area |-> 1000]),
     ShapeFunction([shape |-> "circle", min_area |-> 4, max_area |-> 3]),
     ShapeFunction([shape |-> "circle", min_area |-> -1, max_area |-> 1000]),
     ShapeFunction([min_area |-> 0, max_area |-> 1000]),
     [function |-> "template_matching", parameters |-> <<>>]}

LeadFunctions ==
    {ColorFunction([r |-> 200, g |-> 0, b |-> 0], White, <<0, 1000>>),
     ShapeFunction([shape |-> "triangle", min_area |-> 0, max_area |-> 1000]),
     [function |-> "template_matching", parameters |-> <<>>]}

FunctionLists ==
    {<<>>} \cup UNION {{Append(lead, f) : lead \in [1 .. (n - 1) -> LeadFunctions],
                                          f \in RouteFunctions} :
                       n \in 1 .. MaxFunctions}

Timestamps == {1000, VideoLenMs}

Requests ==
    {Request(fs, roi, 1000) : fs \in FunctionLists, roi \in ROIs}
    \cup {Request(fs, FullROI, t) : fs \in FunctionLists, t \in Timestamps}

RouteFrames ==
    {EdgeBlobs("red", "rose"),
     Painted({<<0, 0, 6, 2, "white">>, <<7, 0, 2, 3, "yellow">>, <<10, 0, 2, 2, "white">>})}

\* The debug directory and the votes of the Hough transform: any votes with
\* a directory that works, the first votes with one that does not.
RouteCircles == {<<Circle(8, 1, 1), Circle(3, 1, 1)>>, <<>>, <<Circle(8, 1, 0)>>}

RouteWorlds ==
    {[debug_dir |-> "ok", circles |-> cs] : cs \in RouteCircles}
    \cup {[debug_dir |-> d, circles |-> <<Circle(8, 1, 1), Circle(3, 1, 1)>>] :
             d \in DebugDirStates}

Init ==
    /\ VideoLoaded \/ NoVideoLoaded \/ VideoFileMissing
    /\ frame \in RouteFrames
    /\ \E world \in RouteWorlds :
           /\ debug_dir = world.debug_dir
           /\ lib = [poly |-> [c \in BinaryContours(frame) |-> DefaultPoly],
                     circles |-> world.circles]
           /\ current_video_path \notin DOMAIN disk => world.circles = <<>>
    /\ last = NoHistory
    /\ InitServer

Next ==
    \/ \E req \in Requests : ProcessStart(req)
    \/ ProcessFunction
    \/ ProcessReturn
    \/ ProcessDone

Spec == Init /\ [][Next]_vars

(***************************************************************************)
(* The same analyses asked again: one or two well-formed functions per     *)
(* request, at two timestamps of a video whose frames are all alike, the   *)
(* calls of the request before being remembered in last.                   *)
(***************************************************************************)
RepeatFunctions ==
    {ColorFunction([r |-> 200, g |-> 0, b |-> 0], White, <<0, 1000>>),
     ShapeFunction([shape |-> "rectangle", rectangle_type |-> "any",
                    min_area |-> 0, max_area |-> 1000]),
     ShapeFunction([shape |-> "circle", min_area |-> 0, max_area |-> 1000])}

RepeatRequests ==
    {Request(<<f>>, roi, t) : f \in RepeatFunctions, roi \in ShapeROIs, t \in {0, 1000}}
    \cup {Request(<<f, g>>, roi, t) :
             f \in RepeatFunctions, g \in RepeatFunctions, roi \in ShapeROIs,
             t \in {0, 1000}}

InitRepeat ==
    /\ VideoLoaded
    /\ frame \in RouteFrames
    /\ debug_dir = "ok"
    /\ lib = [poly |-> [c \in BinaryContours(frame) |-> DefaultPoly],
              circles |-> <<Circle(8, 1, 1), Circle(3, 1, 1)>>]
    /\ last = [NoHistory EXCEPT !.on = TRUE]
    /\ InitServer

NextRepeat ==
    \/ \E req \in RepeatRequests : ProcessStart(req)
    \/ ProcessFunction
    \/ ProcessReturn
    \/ ProcessDone

SpecRepeat == InitRepeat /\ [][NextRepeat]_vars

(***************************************************************************)
(* Uploads served one after the other: files of every extension case,      *)
(* small videos, videos beyond MAX_WIDTH x MAX_HEIGHT (with and without a  *)
(* working encoder), and files that are no videos.                         *)
(***************************************************************************)
Upload(filename, width, height, fps, frame_count, encodes) ==
    [filename |-> filename,
     content |-> Content(filename, width, height, fps, frame_count),
     encodes |-> encodes]

NotAVideo(filename) ==
    [filename |-> filename,
     content |-> [EmptyContent EXCEPT !.bytes = filename],
     encodes |-> TRUE]

UploadFiles ==
    { Upload(<<"test", "mp4">>, 64, 64, 30, 1, TRUE),
      Upload(<<"clip", "avi">>, MAX_WIDTH, MAX_HEIGHT, 25, 50, TRUE),
      Upload(<<"TEST", "MP4">>, 1280, 720, 30, 60, TRUE),
      Upload(<<"tall", "mp4">>, 300, 720, 30, 60, TRUE),
      Upload(<<"wide", "mov">>, 1920, 800, 24, 48, FALSE),
      Upload(<<"odd", "avi">>, 800, 571, 25, 50, TRUE),
      Upload(<<"strip", "mp4">>, 10000, 1, 30, 60, TRUE),
      Upload(<<"still", "mov">>, 64, 64, 0, 0, TRUE),
      Upload(<<"a", "tar", "MKV">>, 64, 64, 30, 1, TRUE),
      Upload(<<"mp4">>, 64, 64, 30, 1, TRUE),
      Upload(<<"mov", "txt">>, 64, 64, 30, 1, TRUE),
      NotAVideo(<<"test", "mp4">>),
      NotAVideo(<<"test", "txt">>),
      NotAVideo(<<"">>) }

Serving == {"a"}

InitVideo ==
    /\ NoVideoLoaded
    /\ frame \in {f \in RouteFrames : f = CHOOSE g \in RouteFrames : TRUE}
    /\ debug_dir = "ok"
    /\ lib = [poly |-> [c \in BinaryContours(frame) |-> DefaultPoly],
              circles |-> <<>>]
    /\ last = NoHistory
    /\ InitServer

NextVideo ==
    \/ \E c \in Serving, file \in UploadFiles : UploadVideo(c, file)
    \/ \E c \in Serving : SaveOpen(c)
    \/ \E c \in Serving : SaveWrite(c)
    \/ \E c \in Serving : SaveFinish(c)
    \/ \E c \in Serving : UploadDone(c)
    \/ \E c \in Serving : CleanupCurrentVideo(c)
    \/ \E path \in DOMAIN disk : RemoveFile(path)

SpecVideo == InitVideo /\ [][NextVideo]_vars

(***************************************************************************)
(* Two uploads that overlap: each request can be suspended at its awaited  *)
(* open, read and write while the other one runs.                          *)
(***************************************************************************)
RaceFiles ==
    { Upload(<<"test", "mp4">>, 64, 64, 30, 1, TRUE),
      Upload(<<"other", "mp4">>, 320, 240, 25, 50, TRUE),
      Upload(<<"TEST", "MP4">>, 1280, 720, 30, 60, TRUE) }

NextVideoRace ==
    \/ \E c \in Clients, file \in RaceFiles : UploadVideo(c, file)
    \/ \E c \in Clients : SaveOpen(c)
    \/ \E c \in Clients : SaveWrite(c)
    \/ \E c \in Clients : SaveFinish(c)
    \/ \E c \in Clients : UploadDone(c)
    \/ \E c \in Clients : CleanupCurrentVideo(c)
    \/ \E path \in DOMAIN disk : RemoveFile(path)

SpecVideoRace == InitVideo /\ [][NextVideoRace]_vars

(***************************************************************************)
(* /ws/metadata clients and broadcasts.  In SpecBroadcast nothing else     *)
(* runs while a broadcast is suspended; in SpecSockets everything          *)
(* interleaves.                                                            *)
(***************************************************************************)
ClientData ==
    {Data(TRUE, TRUE, TRUE), Data(TRUE, FALSE, FALSE), Data(FALSE, FALSE, FALSE)}

InitSockets ==
    /\ VideoLoaded \/ NoVideoLoaded \/ VideoFileMissing
    /\ frame \in {f \in RouteFrames : f = CHOOSE g \in RouteFrames : TRUE}
    /\ debug_dir = "ok"
    /\ lib = [poly |-> [c \in BinaryContours(frame) |-> DefaultPoly],
              circles |-> <<>>]
    /\ last = NoHistory
    /\ InitServer

NextSockets ==
    \/ \E w \in Sockets : Connect(w)
    \/ \E w \in Sockets, data \in ClientData : Receive(w, data)
    \/ \E w \in Sockets : ClientDisconnects(w)
    \/ BroadcastStart
    \/ \E outcome \in SendOutcomes : BroadcastSend(outcome)
    \/ BroadcastReturn

SpecSockets == InitSockets /\ [][NextSockets]_vars

NextBroadcast ==
    \/ broadcast.pc = "idle" /\ \E w \in Sockets : Connect(w)
    \/ broadcast.pc = "idle" /\ \E w \in Sockets, data \in ClientData : Receive(w, data)
    \/ broadcast.pc = "idle" /\ \E w \in Sockets : ClientDisconnects(w)
    \/ BroadcastStart
    \/ \E outcome \in SendOutcomes : BroadcastSend(outcome)
    \/ BroadcastReturn

SpecBroadcast == InitSockets /\ [][NextBroadcast]_vars

(***************************************************************************)
(* Properties of colour segmentation.                                      *)
(***************************************************************************)
ColorCalls == {i \in DOMAIN calls : calls[i].function = "color_segmentation"}

\* The channels of a colour that hold its largest value.
TopChannels(c) ==
    LET m == SetMax({c.r, c.g, c.b})
    IN {ch \in {"r", "g", "b"} : c[ch] = m}

\* red, green or blue when that channel alone is the largest, else none.
Dominance(c) ==
    IF TopChannels(c) = {"r"} THEN "red"
    ELSE IF TopChannels(c) = {"g"} THEN "green"
    ELSE IF TopChannels(c) = {"b"} THEN "blue"
    ELSE "none"

HSVBox(hlo, hhi, slo, shi, vlo, vhi) ==
    [hlo |-> hlo, hhi |-> hhi, slo |-> slo, shi |-> shi, vlo |-> vlo, vhi |-> vhi]

BandsOf(category) ==
    CASE category = "red"   -> {HSVBox(0, 10, 120, 255, 70, 255),
                                HSVBox(170, 180, 120, 255, 70, 255)}
      [] category = "green" -> {HSVBox(35, 85, 100, 255, 100, 255)}
      [] category = "blue"  -> {HSVBox(100, 140, 100, 255, 100, 255)}
      [] category = "none"  -> {HSVBox(0, 180, 100, 255, 100, 255)}

\* C1: the range mask of every colour-segmentation call is made with the band
\* set of the lower colour's strict dominance (red: hue 0..10 and 170..180,
\* S 120..255, V 70..255; green: hue 35..85; blue: hue 100..140; any tie: hue
\* 0..180; the last three with S and V 100..255), and marks exactly the pixels
\* of the region whose HSV value lies in one of those bands.
C1_BandByDominance ==
    \A i \in ColorCalls :
        calls[i].out.status = "ok" =>
            LET expected == BandsOf(Dominance(calls[i].params.lower_color))
                region   == calls[i].out.region
            IN /\ calls[i].out.mask0.bands = expected
               /\ calls[i].out.mask0.on =
                      {p \in Pixels(region.w, region.h) :
                          \E b \in expected : InBand(HSVOf(region.px[p]), b)}

\* A call whose lower colour has a tie for the largest channel ran and its
\* full-hue mask marks some pixel.
C1_Witness ==
    \E i \in ColorCalls :
        /\ calls[i].out.status = "ok"
        /\ calls[i].params.lower_color.r = calls[i].params.lower_color.g
        /\ calls[i].params.lower_color.r > calls[i].params.lower_color.b
        /\ calls[i].out.mask0.on # {}

\* C2: two colour-segmentation calls on the same frame and region with the
\* same area range and lower colours of the same dominance category return the
\* same boxes, whatever their upper colours and exact lower colours.
C2_SameCategorySameBoxes ==
    \A i, j \in ColorCalls :
        (/\ calls[i].params.min_area = calls[j].params.min_area
         /\ calls[i].params.max_area = calls[j].params.max_area
         /\ Dominance(calls[i].params.lower_color)
               = Dominance(calls[j].params.lower_color))
        => /\ calls[i].out.status = calls[j].out.status
           /\ calls[i].out.bounding_boxes = calls[j].out.bounding_boxes

\* Two calls of one category with different lower and upper colours both
\* returned the same non-empty sequence.
C2_Witness ==
    \E i, j \in ColorCalls :
        /\ i # j
        /\ Dominance(calls[i].params.lower_color) = Dominance(calls[j].params.lower_color)
        /\ calls[i].params.lower_color # calls[j].params.lower_color
        /\ calls[i].params.upper_color # calls[j].params.upper_color
        /\ calls[i].out.bounding_boxes # <<>>
        /\ calls[j].out.bounding_boxes = calls[i].out.bounding_boxes

\* C3: every box returned by colour segmentation is the bounding rectangle of
\* a contour of the cleaned mask whose area is in [min_area, max_area], both
\* ends included.
C3_BoxesWithinAreaRange ==
    \A i \in ColorCalls :
        LET out == calls[i].out
        IN /\ out.status = "ok" => out.contours = findContours(out.mask.on)
           /\ Len(out.src) = Len(out.bounding_boxes)
           /\ \A k \in DOMAIN out.bounding_boxes :
                 /\ out.src[k] \in DOMAIN out.contours
                 /\ out.bounding_boxes[k] = boundingRect(out.contours[out.src[k]])
                 /\ 2 * calls[i].params.min_area <= contourArea2(out.contours[out.src[k]])
                 /\ contourArea2(out.contours[out.src[k]]) <= 2 * calls[i].params.max_area

\* A call found a contour whose area equals max_area and kept it, and dropped
\* another one outside the range.
C3_Witness ==
    \E i \in ColorCalls :
        LET out == calls[i].out
        IN /\ Len(out.contours) = 2
           /\ Len(out.bounding_boxes) = 1
           /\ contourArea2(out.contours[out.src[1]]) = 2 * calls[i].params.max_area

(***************************************************************************)
(* Properties of shape detection.                                          *)
(***************************************************************************)
ShapeCalls(shape) ==
    {i \in DOMAIN calls : /\ calls[i].function = "shape_detection"
                          /\ calls[i].params.shape = shape
                          /\ calls[i].out.status = "ok"}

Indices(seq) == [i \in 1 .. Len(seq) |-> i]

\* The closed interval of a rectangle sub-kind, in hundredths.
RatioInterval(params) ==
    CASE params.rectangle_type = "any"        -> <<20, 500>>
      [] params.rectangle_type = "square"     -> <<80, 120>>
      [] params.rectangle_type = "horizontal" -> <<150, 500>>
      [] params.rectangle_type = "vertical"   -> <<20, 67>>
      [] params.rectangle_type = "custom"     ->
             <<params.custom_ratio[1].min_ratio, params.custom_ratio[1].max_ratio>>

RatioSupplied(params) ==
    params.rectangle_type = "custom" => params.custom_ratio # NoRatio

\* What C4 asks of a contour under the given parameters.
IsRectangle(contour, params) ==
    LET box == boundingRect(contour)
        lim == RatioInterval(params)
    IN /\ 2 * params.min_area <= contourArea2(contour)
       /\ contourArea2(contour) <= 2 * params.max_area
       /\ approxPolyDP(contour, 4).len = 4
       /\ box[4] # 0
       /\ lim[1] * box[4] <= 100 * box[3]
       /\ 100 * box[3] <= lim[2] * box[4]

\* C4: in the rectangle branch a contour yields its bounding box if and only
\* if its area is in [min_area, max_area], its 4% polygon approximation has 4
\* vertices, h is not 0 and w/h is in the closed interval of the sub-kind (any
\* 0.2..5, square 0.8..1.2, horizontal 1.5..5, vertical 0.2..0.67, custom as
\* supplied); a contour of ratio 3.0 that passes the other tests is kept under
\* horizontal and any and dropped under square and vertical.
C4_RectangleIffRatioInInterval ==
    \A i \in ShapeCalls("rectangle") :
        LET p   == calls[i].params
            out == calls[i].out
        IN RatioSupplied(p) =>
             /\ out.src = SelectSeq(Indices(out.contours),
                                    LAMBDA k : IsRectangle(out.contours[k], p))
             /\ out.bounding_boxes =
                    [k \in 1 .. Len(out.src) |-> boundingRect(out.contours[out.src[k]])]
             /\ \A k \in DOMAIN out.contours :
                    LET box == boundingRect(out.contours[k])
                    IN (/\ box[3] = 3 * box[4]
                        /\ 2 * p.min_area <= contourArea2(out.contours[k])
                        /\ contourArea2(out.contours[k]) <= 2 * p.max_area
                        /\ approxPolyDP(out.contours[k], 4).len = 4)
                       => /\ p.rectangle_type \in {"horizontal", "any"}
                              => <<box[1], box[2], box[3], box[4]>> \in
                                     {out.bounding_boxes[n] : n \in DOMAIN out.bounding_boxes}
                          /\ p.rectangle_type \in {"square", "vertical"}
                              => k \notin {out.src[n] : n \in DOMAIN out.src}

\* Of three contours in the area range, a horizontal request kept only the
\* one of ratio 3.0.
C4_Witness ==
    \E i \in ShapeCalls("rectangle") :
        LET p   == calls[i].params
            out == calls[i].out
        IN /\ p.rectangle_type = "horizontal"
           /\ Len(out.contours) = 3
           /\ \A k \in DOMAIN out.contours :
                  /\ 2 * p.min_area <= contourArea2(out.contours[k])
                  /\ contourArea2(out.contours[k]) <= 2 * p.max_area
                  /\ approxPolyDP(out.contours[k], 4).len = 4
           /\ out.bounding_boxes = <<<<0, 0, 6, 2>>>>

\* What C5 asks of a nominated circle: some contour overlaps its disk in more
\* than 0.7 * pi * r * r pixels, and pi * r * r is in [min_area, max_area].
IsValidCircle(circle, out, params) ==
    \E k \in DOMAIN out.contours :
        /\ 10 * PiDen * Cardinality(DiskMask(circle, out.region.w, out.region.h)
                                      \cap out.contours[k])
               > 7 * PiNum * circle.r * circle.r
        /\ PiDen * params.min_area <= PiNum * circle.r * circle.r
        /\ PiNum * circle.r * circle.r <= PiDen * params.max_area

\* C5: in the circle branch a nominated circle is accepted (and gives the box
\* (x - r, y - r, 2r, 2r)) if and only if some contour of the binary image
\* overlaps its filled disk in strictly more than 0.7 * pi * r * r pixels and
\* min_area <= pi * r * r <= max_area; with no contour there is no box.
C5_CircleIffOverlapAndArea ==
    \A i \in ShapeCalls("circle") :
        LET p   == calls[i].params
            out == calls[i].out
        IN /\ out.src = SelectSeq(Indices(out.circles),
                                  LAMBDA j : IsValidCircle(out.circles[j], out, p))
           /\ out.bounding_boxes =
                  [k \in 1 .. Len(out.src) |->
                      LET c == out.circles[out.src[k]]
                      IN <<c.x - c.r, c.y - c.r, 2 * c.r, 2 * c.r>>]
           /\ out.contours = <<>> => out.bounding_boxes = <<>>

\* A call accepted the nominated circle, which no contour covers entirely,
\* in a frame of several contours.
C5_Witness ==
    \E i \in ShapeCalls("circle") :
        LET out == calls[i].out
        IN /\ Len(out.circles) = 1
           /\ Len(out.contours) > 1
           /\ out.bounding_boxes =
                  <<<<out.circles[1].x - 1, out.circles[1].y - 1, 2, 2>>>>
           /\ \A k \in DOMAIN out.contours :
                  ~(DiskMask(out.circles[1], out.region.w, out.region.h)
                        \subseteq out.contours[k])

\* C6: in the triangle branch a contour yields a box if and only if its area
\* is in [min_area, max_area] and its 3% polygon approximation has 3 vertices;
\* the box is the bounding box of the contour itself; when every contour
\* approximates to 4 vertices the result is the empty sequence, without error.
C6_TriangleIffThreeVertices ==
    \A i \in DOMAIN calls :
        LET p   == calls[i].params
            out == calls[i].out
        IN (calls[i].function = "shape_detection" /\ p.shape = "triangle"
                /\ ~IsEmptyImage(out.region)) =>
             /\ out.status = "ok"
             /\ out.src = SelectSeq(Indices(out.contours),
                    LAMBDA k : /\ 2 * p.min_area <= contourArea2(out.contours[k])
                               /\ contourArea2(out.contours[k]) <= 2 * p.max_area
                               /\ approxPolyDP(out.contours[k], 3).len = 3)
             /\ out.bounding_boxes =
                    [k \in 1 .. Len(out.src) |-> boundingRect(out.contours[out.src[k]])]
             /\ (\A k \in DOMAIN out.contours : approxPolyDP(out.contours[k], 3).len = 4)
                    => out.bounding_boxes = <<>>

\* A call kept a contour whose 3-vertex approximation has another bounding
\* box than the contour, and dropped a contour that approximates to 4.
C6_Witness ==
    \E i \in ShapeCalls("triangle") :
        LET out == calls[i].out
        IN /\ Len(out.bounding_boxes) = 1
           /\ approxPolyDP(out.contours[out.src[1]], 3).box # out.bounding_boxes[1]
           /\ \E k \in DOMAIN out.contours : approxPolyDP(out.contours[k], 3).len = 4

(***************************************************************************)
(* Properties of the inputs a pipeline accepts.                            *)
(***************************************************************************)
Contained(roi, img) ==
    /\ 0 <= roi.position.x /\ roi.position.x + roi.size.width <= img.w
    /\ 0 <= roi.position.y /\ roi.position.y + roi.size.height <= img.h

\* C7: region extraction gives exactly the rectangle [y, y+height) x
\* [x, x+width) of the frame when the ROI is contained in the frame, and fails
\* with OutOfBounds when it is not; never a smaller, clamped or wrapped region.
C7_ExactRegionOrOutOfBounds ==
    \A i \in DOMAIN calls :
        LET roi    == request.roi
            region == calls[i].out.region
        IN calls[i].out.status = "OSError" \/
           IF Contained(roi, frame)
           THEN /\ region.w = roi.size.width /\ region.h = roi.size.height
                /\ \A p \in Pixels(region.w, region.h) :
                       region.px[p] = frame.px[<<roi.position.x + p[1],
                                                 roi.position.y + p[2]>>]
           ELSE calls[i].out.status = "OutOfBounds"

\* C8: parameters with min_area > max_area are rejected before any pipeline
\* stage runs: no pipeline is ever called with them, and no result is
\* returned for them.
C8_MinAboveMaxRejected ==
    \A i \in DOMAIN calls : calls[i].params.min_area <= calls[i].params.max_area

\* C9: rectangle sub-kind custom without a custom ratio is rejected when the
\* parameters are constructed: no pipeline is called with such parameters and
\* the aspect-ratio lookup never fails on a missing key.
C9_CustomNeedsRatio ==
    /\ \A i \in DOMAIN calls :
           (calls[i].function = "shape_detection"
                /\ calls[i].params.rectangle_type = "custom")
               => calls[i].params.custom_ratio # NoRatio
    /\ response.detail.text # "KeyError"

\* C10: every function's parameters are validated before any pipeline stage
\* runs: when a validation error is raised, no stage and no debug emission of
\* an earlier function has happened.
C10_ValidationBeforeStages ==
    \A k \in DOMAIN log :
        (log[k].ev.kind = "validate" /\ log[k].ev.name = "ValidationError")
            => \A j \in 1 .. (k - 1) : log[j].ev.kind \notin {"stage", "debug"}

(***************************************************************************)
(* Properties of the debug sink and of the results.                        *)
(***************************************************************************)
\* C11: a failing debug emission (the debug directory cannot be created, an
\* image cannot be written) is swallowed: no pipeline call raises because of
\* it, and the request is not answered with its error.
C11_DebugFailureSwallowed ==
    /\ \A i \in DOMAIN calls : calls[i].out.status # "OSError"
    /\ response.detail.text # "OSError"

\* The region a call works on and the contours its contour stage finds in
\* it, from the frame and the request.
RegionOf(i) == ExtractRegion(frame, request.roi)

ContoursOf(i) ==
    IF calls[i].function = "color_segmentation"
    THEN findContours(_apply_morphology(
             _create_color_mask(SmoothedHSV(RegionOf(i)), calls[i].params)).on)
    ELSE findContours(threshold(SmoothedGray(RegionOf(i))).on)

\* A stage of call i has no candidate to hand on: the Hough transform returns
\* no circle or there is no contour (circle branch); no contour has its area
\* in the range (the other branches and colour segmentation).
ZeroCandidates(i) ==
    LET p  == calls[i].params
        cs == ContoursOf(i)
    IN IF calls[i].function = "shape_detection" /\ p.shape = "circle"
       THEN cs = <<>> \/ _find_circles(RegionOf(i), p).none
       ELSE \A k \in DOMAIN cs :
               ~(2 * p.min_area <= contourArea2(cs[k])
                   /\ contourArea2(cs[k]) <= 2 * p.max_area)

\* The stages of call i are reached: the debug directory can be made, the
\* region is not empty and the areas are not negative.
StagesRun(i) ==
    /\ debug_dir # "mkdir_fails"
    /\ ~IsEmptyImage(RegionOf(i))
    /\ calls[i].params.min_area >= 0 /\ calls[i].params.max_area >= 0

SameInput(c, d) == c.function = d.function /\ c.params = d.params

C15_FrameUnchanged == [][frame' = frame]_vars

\* A circle or triangle call has drawn its boxes (on the debug frame of its
\* ShapeDetectionResult) and the request has gone on.
C15_Witness ==
    \E i \in DOMAIN calls :
        /\ calls[i].function = "shape_detection"
        /\ calls[i].params.shape \in {"circle", "triangle"}
        /\ calls[i].out.bounding_boxes # <<>>
        /\ calls[i].out.written = {}
        /\ pc = "done"

(***************************************************************************)
(* VideoManager                                                            *)
(***************************************************************************)

\* A client for which cleanup_current_video has just returned: called
\* directly, or awaited by save_video before the upload is written.
CleanupReturned(c) ==
    \/ save[c].op = "cleanup_current_video" /\ save[c].pc = "done"
    \/ save[c].op = "upload_video" /\ save[c].pc = "open"

\* C16: after cleanup_current_video returns, from any reachable state (also
\* one where the recorded file is already gone from the disk),
\* get_current_video() and get_current_video_path() are both None.
C16_CleanupClearsState ==
    \A c \in Clients :
        CleanupReturned(c) => current_video = NoVideo /\ current_video_path = NoPath


\* A client whose upload has just been answered with the metadata.
SaveSucceeded(c) ==
    save[c].op = "upload_video" /\ save[c].pc = "done" /\ save[c].response.status = 200

\* C17: after save_video returns successfully, get_current_video() is the
\* returned metadata, with the name of the uploaded file and the width, height
\* and fps of the stored video; get_current_video_path() is a file on the disk
\* and the temporary upload file is gone.
C17_SaveLeavesConsistentState ==
    \A c \in Clients :
        SaveSucceeded(c) =>
            /\ current_video = save[c].response.body
            /\ current_video.filename = save[c].file.filename
            /\ current_video_path \in DOMAIN disk
            /\ current_video.width = disk[current_video_path].width
            /\ current_video.height = disk[current_video_path].height
            /\ current_video.fps = disk[current_video_path].fps
            /\ disk[current_video_path].bytes = save[c].file.filename
            /\ save[c].temp_path \notin DOMAIN disk

\* A resized upload with an upper-case extension has succeeded.
C17_Witness ==
    \E c \in Clients :
        /\ SaveSucceeded(c)
        /\ disk[current_video_path].resized
        /\ current_video.width = MAX_WIDTH /\ current_video.height = MAX_HEIGHT
        /\ save[c].file.content.width = 1280
        /\ current_video_path = Path("current_video", "MP4")

\* C18: an upload replaces any existing video.  After every successful upload
\* of a sequence (same or different extensions) the upload directory holds
\* exactly one file, the current video; the metadata and the path are those of
\* this last upload, and no file of an earlier upload is left.
C18_UploadReplaces ==
    \A c \in Clients :
        SaveSucceeded(c) =>
            /\ DOMAIN disk = {current_video_path}
            /\ current_video_path = Path("current_video", Extension(save[c].file.filename))
            /\ current_video.filename = save[c].file.filename
            /\ disk[current_video_path].bytes = save[c].file.filename
            /\ \A earlier \in uploaded \ {save[c].file.filename} :
                   \A path \in DOMAIN disk : disk[path].bytes # earlier

\* An upload has succeeded after successful uploads with the same and with
\* another extension.
C18_Witness ==
    \E c \in Clients :
        /\ SaveSucceeded(c)
        /\ save[c].file.filename = <<"test", "mp4">>
        /\ {<<"tall", "mp4">>, <<"clip", "avi">>, <<"TEST", "MP4">>} \subseteq uploaded

\* The extension of a file name as the claim reads it: what follows the last
\* dot, nothing when the name has no dot.
NameExtension(filename) == IF Len(filename) > 1 THEN filename[Len(filename)] ELSE ""

SupportedSpellings == {"mp4", "MP4", "avi", "AVI", "mov", "MOV"}

\* C19: an upload whose file name extension is, whatever its case, none of
\* mp4, avi, mov is answered with 400 "Unsupported file format" and leaves the
\* metadata, the path and the stored file as they were.
C19_UnsupportedRejected ==
    [][\A c \in Clients :
          ( /\ save[c].pc = "idle"
            /\ save'[c].op = "upload_video"
            /\ NameExtension(save'[c].file.filename) \notin SupportedSpellings )
          => /\ save'[c].pc = "done"
             /\ save'[c].response.status = 400
             /\ save'[c].response.detail = "Unsupported file format"
             /\ UNCHANGED <<current_video_path, current_video, disk>>]_vars

(***************************************************************************)
(* POST /process without a frame                                           *)
(***************************************************************************)

\* No frame can be read for the request being served: no video is loaded,
\* its file is not there, or the timestamp lies at or beyond its end.
NoFrameToRead ==
    \/ current_video_path = NoPath
    \/ current_video_path \notin DOMAIN disk
    \/ request.timestamp >= VideoLenMs

\* C20: POST /process answers 422 with a list-valued detail and runs no
\* pipeline stage whenever no video is loaded or no frame can be read at the
\* requested timestamp; a pipeline runs only after a frame was read.
C20_NoFrameNoPipeline ==
    /\ (pc # "idle" /\ NoFrameToRead) =>
           /\ pc = "done"
           /\ response.status = 422
           /\ response.detail.type = "list"
           /\ calls = <<>> /\ log = <<>> /\ results = <<>>
    /\ (calls # <<>> \/ log # <<>>) => ~NoFrameToRead

\* A request with functions to run was answered 422 for a timestamp at the end
\* of a loaded video.
C20_Witness ==
    /\ pc = "done"
    /\ current_video_path \in DOMAIN disk
    /\ request.timestamp = VideoLenMs
    /\ request.pdi_functions # <<>>
    /\ response.status = 422
    /\ response.detail = DetailList("Could not read frame at specified timestamp")

(***************************************************************************)
(* Dimensions of the stored video                                          *)
(***************************************************************************)

\* result is x * num / den truncated to an integer, the product being
\* computed in floating point: when the exact product is an integer the
\* computed one may fall just below it.
ScaledBy(x, num, den, result) ==
    \/ result = (x * num) \div den
    \/ result = ((x * num) \div den) - 1 /\ (x * num) % den = 0

\* C23: the stored metadata of every upload has width <= 640 and height <= 360.
\* A video within both limits keeps its dimensions; one that exceeds a limit
\* has both dimensions scaled by the single factor min(640/width, 360/height),
\* each truncated to an integer.
C23_DimensionsWithinLimits ==
    \A c \in Clients :
        SaveSucceeded(c) =>
            LET width == save[c].file.content.width
                height == save[c].file.content.height
                by_width == 640 * height <= 360 * width
                num == IF by_width THEN 640 ELSE 360
                den == IF by_width THEN width ELSE height
            IN  /\ current_video.width <= 640 /\ current_video.height <= 360
                /\ IF width <= 640 /\ height <= 360
                   THEN current_video.width = width /\ current_video.height = height
                   ELSE /\ ScaledBy(width, num, den, current_video.width)
                        /\ ScaledBy(height, num, den, current_video.height)

\* A video that exceeds only the height limit was stored, scaled by
\* 360/height in both dimensions.
C23_Witness ==
    \E c \in Clients :
        /\ SaveSucceeded(c)
        /\ save[c].file.content.width = 300 /\ save[c].file.content.height = 720
        /\ current_video.width = 150 /\ current_video.height = 360

(***************************************************************************)
(* Failing uploads                                                         *)
(***************************************************************************)

\* A client whose upload got past the extension test and then failed.
SaveFailed(c) ==
    save[c].op = "upload_video" /\ save[c].pc = "done" /\ save[c].response.status = 500

\* C29: when save_video fails, the previously current video is unchanged:
\* the metadata, the path and the stored files are those of before the call,
\* and the temporary upload file is gone.
C29_FailureKeepsCurrentVideo ==
    \A c \in Clients :
        SaveFailed(c) =>
            /\ current_video = save[c].before.video
            /\ current_video_path = save[c].before.path
            /\ disk = save[c].before.disk
            /\ save[c].temp_path \notin DOMAIN disk

\* C30: in every state reached by save_video and cleanup_current_video calls,
\* the metadata and the path are set together: get_current_video() is None
\* if and only if get_current_video_path() is None.
C30_MetadataAndPathTogether ==
    (current_video = NoVideo) <=> (current_video_path = NoPath)

(***************************************************************************)
(* Order of the colour-segmentation stages and of its output               *)
(***************************************************************************)

\* The boxes of the contours of a list whose area is in [min_area, max_area],
\* in the order of the list.
BoxesOfKept(contours, min_area, max_area) ==
    LET kept == SelectSeq(contours,
                          LAMBDA c : /\ 2 * min_area <= contourArea2(c)
                                     /\ contourArea2(c) <= 2 * max_area)
    IN [k \in 1 .. Len(kept) |-> boundingRect(kept[k])]

\* C25: the output of colour segmentation is exactly the contour list filtered
\* by the area test, in discovery order: one box per contour whose area is in
\* [min_area, max_area], none dropped or duplicated, box i before box j
\* whenever contour i was discovered before contour j.
C25_OutputIsFilteredContours ==
    \A i \in ColorCalls :
        calls[i].out.status = "ok" =>
            /\ calls[i].out.contours = findContours(calls[i].out.mask.on)
            /\ calls[i].out.bounding_boxes =
                   BoxesOfKept(calls[i].out.contours,
                               calls[i].params.min_area, calls[i].params.max_area)

\* A call found two contours and kept both, with different boxes, the box of
\* the contour discovered first coming first.
C25_Witness ==
    \E i \in ColorCalls :
        /\ calls[i].out.status = "ok"
        /\ Len(calls[i].out.contours) = 2
        /\ Len(calls[i].out.bounding_boxes) = 2
        /\ calls[i].out.bounding_boxes[1] = boundingRect(calls[i].out.contours[1])
        /\ calls[i].out.bounding_boxes[1] # calls[i].out.bounding_boxes[2]

ClaimedStages == <<"crop", "blur", "hsv", "mask", "erode", "dilate", "contours">>

\* The names of the stages of a trace that the claim lists, in trace order.
StagesOf(trace) ==
    LET stages == SelectSeq(trace, LAMBDA ev : /\ ev.kind = "stage"
                                                /\ \E k \in DOMAIN ClaimedStages :
                                                       ClaimedStages[k] = ev.name)
    IN [k \in 1 .. Len(stages) |-> stages[k].name]

WellFormedROI ==
    /\ Contained(request.roi, frame)
    /\ request.roi.size.width > 0 /\ request.roi.size.height > 0

\* C24: every colour-segmentation call on a well-formed region runs its
\* stages exactly once each and in the order crop, blur, HSV conversion, range
\* mask, erosion (1 iteration), dilation (2 iterations), contour extraction;
\* none is skipped, repeated or reordered, and the contour stage reads the
\* mask the dilation produced.
C24_StagesOnceInOrder ==
    \A i \in ColorCalls :
        WellFormedROI =>
            /\ StagesOf(calls[i].out.trace) = ClaimedStages
            /\ calls[i].out.mask = dilate(erode(calls[i].out.mask0, 1), 2)
            /\ calls[i].out.contours = findContours(calls[i].out.mask.on)

(***************************************************************************)
(* /ws/metadata                                                            *)
(***************************************************************************)

\* C21: a message on /ws/metadata that does not match the expected format
\* (timestamp, roi, pdi_functions) is answered on the same connection with a
\* response of type "error" whose message contains "Invalid message format".
C21_InvalidMessageAnswered ==
    \A w \in Sockets :
        ( /\ handler[w].received
          /\ ~(handler[w].data.timestamp /\ handler[w].data.roi
                  /\ handler[w].data.pdi_functions) )
        => handler[w].answer = ErrorAnswer("Invalid message format")

\* C22: while no video is loaded, a client message (also one that carries
\* only a timestamp) is answered on the same connection with a response of
\* type "error" whose message contains "No video loaded", and the connection
\* stays open for the next message.
C22_NoVideoAnswered ==
    \A w \in Sockets :
        (handler[w].received /\ ~handler[w].loaded)
        => /\ handler[w].answer = ErrorAnswer("No video loaded")
           /\ handler[w].pc = "receive"
           /\ \E k \in DOMAIN active_connections : active_connections[k] = w

(***************************************************************************)
(* WebSocketManager.broadcast_metadata                                     *)
(***************************************************************************)

Connected(w) == \E k \in DOMAIN active_connections : active_connections[k] = w

\* C26: broadcast_metadata attempts one send to every connection of
\* active_connections; when it returns, every connection whose send raised or
\* timed out has been removed, every connection whose send succeeded is still
\* there, and a failure does not prevent the sends to the connections after it.
C26_BroadcastRemovesFailed ==
    broadcast.pc = "done" =>
        /\ [k \in 1 .. Len(broadcast.attempts) |-> broadcast.attempts[k].to]
               = broadcast.start
        /\ \A k \in DOMAIN broadcast.attempts :
               IF broadcast.attempts[k].outcome = "ok"
               THEN Connected(broadcast.attempts[k].to)
               ELSE ~Connected(broadcast.attempts[k].to)

\* A broadcast to three connections has returned: the first send raised, the
\* second timed out, the third succeeded.
C26_Witness ==
    /\ broadcast.pc = "done"
    /\ Len(broadcast.start) = 3
    /\ broadcast.attempts[1].outcome = "raises"
    /\ broadcast.attempts[2].outcome = "timeout"
    /\ broadcast.attempts[3].outcome = "ok"
    /\ active_connections = <<broadcast.start[3]>>

\* The number of sends of the broadcast that went to w.
SendsTo(w) ==
    Cardinality({k \in DOMAIN broadcast.attempts : broadcast.attempts[k].to = w})

\* C27: when connects and disconnects of other clients interleave with a
\* suspended broadcast_metadata, every connection that was in
\* active_connections when the broadcast started and is still in it when the
\* broadcast ends was sent the message exactly once.
C27_EachRemainingSentOnce ==
    broadcast.pc = "done" =>
        \A w \in Sockets :
            ((\E k \in DOMAIN broadcast.start : broadcast.start[k] = w) /\ Connected(w))
                => SendsTo(w) = 1

(***************************************************************************)
(* Overlapping uploads                                                     *)
(***************************************************************************)

\* C28: when two save_video calls overlap, after both have finished the
\* stored current-video file holds the bytes of the upload whose file name the
\* current metadata records: the shared temporary file is never overwritten by
\* one upload and then renamed and recorded under the other's metadata.
C28_StoredBytesMatchMetadata ==
    ( /\ \A c \in Clients : save[c].pc \in {"idle", "done"}
      /\ current_video # NoVideo
      /\ current_video_path \in DOMAIN disk )
    => disk[current_video_path].bytes = current_video.filename

====
